---------------------------- MODULE Spec2Model ----------------------------
(***************************************************************************)
(* Model of the vulners-proxy-go request-forwarding engine:                *)
(*   internal/service/proxy.go   (allowlist, credential resolution, URL    *)
(*                                building, header filters, Forward)       *)
(*   internal/handler/proxy.go   (Handle, mapError)                        *)
(*   internal/client/vulners.go  (DoStream / Do)                           *)
(*   internal/config/config.go   (validate)                                *)
(*                                                                         *)
(* Strings are sequences of one-character strings, so that case folding,   *)
(* canonicalisation, percent-encoding and URL parsing are computed the way *)
(* the Go standard library computes them.                                  *)
(***************************************************************************)
EXTENDS Integers, Sequences, FiniteSets, Bags, TLC

(***************************************************************************)
(* Bytes and strings                                                       *)
(***************************************************************************)

\* The printable ASCII characters; Ascii[i] has byte value 31 + i (the
\* grave accent, byte 96, is written by its octal name).
Ascii ==
  << " ", "!", "\"", "#", "$", "%", "&", "'", "(", ")", "*", "+", ",", "-", ".", "/",
     "0", "1", "2", "3", "4", "5", "6", "7", "8", "9", ":", ";", "<", "=", ">", "?",
     "@", "A", "B", "C", "D", "E", "F", "G", "H", "I", "J", "K", "L", "M", "N", "O",
     "P", "Q", "R", "S", "T", "U", "V", "W", "X", "Y", "Z", "[", "\\", "]", "^", "_",
     "\\140", "a", "b", "c", "d", "e", "f", "g", "h", "i", "j", "k", "l", "m", "n", "o",
     "p", "q", "r", "s", "t", "u", "v", "w", "x", "y", "z", "{", "|", "}", "~" >>

AsciiSet == { Ascii[i] : i \in 1..Len(Ascii) }

\* Byte value of a character.
Code == [ c \in AsciiSet |-> 31 + (CHOOSE i \in 1..Len(Ascii) : Ascii[i] = c) ]

Chr(n) == Ascii[n - 31]

IsUpper(c) == Code[c] >= 65 /\ Code[c] <= 90
IsLower(c) == Code[c] >= 97 /\ Code[c] <= 122
IsDigit(c) == Code[c] >= 48 /\ Code[c] <= 57
IsAlnum(c) == IsUpper(c) \/ IsLower(c) \/ IsDigit(c)

lowerChar(c) == IF IsUpper(c) THEN Chr(Code[c] + 32) ELSE c
upperChar(c) == IF IsLower(c) THEN Chr(Code[c] - 32) ELSE c

\* strings.ToLower
ToLower(s) == [ i \in 1..Len(s) |-> lowerChar(s[i]) ]

\* strings.HasPrefix
HasPrefix(s, p) == Len(s) >= Len(p) /\ SubSeq(s, 1, Len(p)) = p

\* Index of the first / last occurrence of character c in s, 0 when absent.
IndexChar(s, c) ==
  IF \E i \in 1..Len(s) : s[i] = c
  THEN CHOOSE i \in 1..Len(s) : s[i] = c /\ \A j \in 1..(i-1) : s[j] # c
  ELSE 0

LastIndexChar(s, c) ==
  IF \E i \in 1..Len(s) : s[i] = c
  THEN CHOOSE i \in 1..Len(s) : s[i] = c /\ \A j \in (i+1)..Len(s) : s[j] # c
  ELSE 0

\* Byte-wise string order (the order of Go string comparison).
RECURSIVE StrLess(_, _)
StrLess(a, b) ==
  IF b = <<>> THEN FALSE
  ELSE IF a = <<>> THEN TRUE
  ELSE IF Code[Head(a)] < Code[Head(b)] THEN TRUE
  ELSE IF Code[Head(a)] > Code[Head(b)] THEN FALSE
  ELSE StrLess(Tail(a), Tail(b))

\* The concatenation ss[lo] \o ... \o ss[hi] of a sequence of strings, by
\* halving, so that the evaluation depth stays logarithmic in its length.
RECURSIVE Concat(_, _, _)
Concat(ss, lo, hi) ==
  IF lo > hi THEN <<>>
  ELSE IF lo = hi THEN ss[lo]
  ELSE LET mid == (lo + hi) \div 2
       IN  Concat(ss, lo, mid) \o Concat(ss, mid + 1, hi)

\* Concatenation of a sequence of strings with a separator (strings.Join).
Join(ss, sep) ==
  Concat([ i \in 1..Len(ss) |-> IF i = 1 THEN ss[i] ELSE sep \o ss[i] ], 1, Len(ss))

\* The elements of a finite set of strings in increasing byte order
\* (sort.Strings over the keys of a map).
RECURSIVE SortedKeys(_)
SortedKeys(S) ==
  IF S = {} THEN <<>>
  ELSE LET m == CHOOSE x \in S : \A y \in S \ {x} : StrLess(x, y)
       IN  <<m>> \o SortedKeys(S \ {m})


\* strings.Split on a one-character separator.
RECURSIVE Split(_, _)
Split(s, c) ==
  LET i == IndexChar(s, c)
  IN  IF i = 0 THEN <<s>>
      ELSE <<SubSeq(s, 1, i - 1)>> \o Split(SubSeq(s, i + 1, Len(s)), c)

(***************************************************************************)
(* net/url: escaping                                                       *)
(***************************************************************************)

HexDigits == << "0", "1", "2", "3", "4", "5", "6", "7", "8", "9",
                "A", "B", "C", "D", "E", "F" >>

ishex(c) == IsDigit(c) \/ (Code[upperChar(c)] >= 65 /\ Code[upperChar(c)] <= 70)

unhex(c) == IF IsDigit(c) THEN Code[c] - 48 ELSE Code[upperChar(c)] - 65 + 10

\* url.shouldEscape for the modes used here: "path" (encodePath), "query"
\* (encodeQueryComponent), "host" (encodeHost), "user" (encodeUserPassword).
shouldEscape(c, mode) ==
  IF IsAlnum(c) THEN FALSE
  ELSE IF mode = "host" /\ c \in { "!", "$", "&", "'", "(", ")", "*", "+", ",", ";",
                                    "=", ":", "[", "]", "<", ">", "\"" } THEN FALSE
  ELSE IF c \in { "-", "_", ".", "~" } THEN FALSE
  ELSE IF c \in { "$", "&", "+", ",", "/", ":", ";", "=", "?", "@" } THEN
         CASE mode = "path"  -> c = "?"
           [] mode = "user"  -> c \in { "@", "/", "?", ":" }
           [] mode = "query" -> TRUE
           [] OTHER          -> TRUE
  ELSE TRUE

\* url.escape
escape(s, mode) ==
  LET e(c) == IF shouldEscape(c, mode)
              THEN IF c = " " /\ mode = "query" THEN << "+" >>
                   ELSE << "%", HexDigits[(Code[c] \div 16) + 1], HexDigits[(Code[c] % 16) + 1] >>
              ELSE << c >>
  IN  Concat([ i \in 1..Len(s) |-> e(s[i]) ], 1, Len(s))

\* url.unescape; the result is [ok |-> FALSE] for a malformed escape.  Only
\* escapes of printable bytes occur in the strings handled here.
unescape(s, mode) ==
  LET byte(i)   == 16 * unhex(s[i + 1]) + unhex(s[i + 2])
      bad(i)    == /\ s[i] = "%"
                   /\ \/ i + 2 > Len(s)
                      \/ ~ishex(s[i + 1]) \/ ~ishex(s[i + 2])
                      \/ byte(i) < 32 \/ byte(i) > 126
      \* A hexadecimal digit of an escape: "%" is none, so an escape starts at
      \* every "%" of a well-formed string.
      inEsc(i)  == (i > 1 /\ s[i - 1] = "%") \/ (i > 2 /\ s[i - 2] = "%")
      piece(i)  == IF s[i] = "%" THEN << Chr(byte(i)) >>
                   ELSE IF inEsc(i) THEN <<>>
                   ELSE IF s[i] = "+" /\ mode = "query" THEN << " " >>
                   ELSE << s[i] >>
  IN  IF \E i \in 1..Len(s) : bad(i) THEN [ok |-> FALSE, s |-> <<>>]
      ELSE [ok |-> TRUE, s |-> Concat([ i \in 1..Len(s) |-> piece(i) ], 1, Len(s))]

\* url.validEncoded
validEncoded(s, mode) ==
  \A i \in 1..Len(s) :
     \/ s[i] \in { "!", "$", "&", "'", "(", ")", "*", "+", ",", ";", "=", ":", "@",
                   "[", "]", "%" }
     \/ ~shouldEscape(s[i], mode)

\* url.validOptionalPort
validOptionalPort(port) ==
  \/ port = <<>>
  \/ /\ port[1] = ":"
     /\ \A i \in 2..Len(port) : IsDigit(port[i])

(***************************************************************************)
(* net/url: URL, Parse, String                                             *)
(***************************************************************************)

NoURL ==
  [ ok |-> FALSE, Scheme |-> <<>>, Opaque |-> <<>>, HasUser |-> FALSE, User |-> <<>>,
    Host |-> <<>>, Path |-> <<>>, RawPath |-> <<>>, RawQuery |-> <<>>, Fragment |-> <<>> ]

\* url.getScheme: [ok, scheme, rest]
getScheme(rawURL) ==
  LET stop(i) == \/ rawURL[i] = ":"
                 \/ ~(IsAlnum(rawURL[i]) \/ rawURL[i] \in { "+", "-", "." })
                 \/ (i = 1 /\ ~(IsUpper(rawURL[i]) \/ IsLower(rawURL[i])))
  IN  IF \E i \in 1..Len(rawURL) : stop(i)
      THEN LET i == CHOOSE k \in 1..Len(rawURL) : stop(k) /\ \A j \in 1..(k-1) : ~stop(j)
           IN  IF rawURL[i] = ":"
               THEN IF i = 1 THEN [ok |-> FALSE, scheme |-> <<>>, rest |-> <<>>]
                    ELSE [ok |-> TRUE, scheme |-> SubSeq(rawURL, 1, i - 1),
                          rest |-> SubSeq(rawURL, i + 1, Len(rawURL))]
               ELSE [ok |-> TRUE, scheme |-> <<>>, rest |-> rawURL]
      ELSE [ok |-> TRUE, scheme |-> <<>>, rest |-> rawURL]

\* url.parseAuthority and url.parseHost (no IPv6 literals): [ok, HasUser, User, Host]
parseAuthority(authority) ==
  LET i    == LastIndexChar(authority, "@")
      hraw == IF i = 0 THEN authority ELSE SubSeq(authority, i + 1, Len(authority))
      c    == LastIndexChar(hraw, ":")
      h    == unescape(hraw, "host")
      uraw == IF i = 0 THEN <<>> ELSE SubSeq(authority, 1, i - 1)
      u    == unescape(uraw, "user")
  IN  IF (c # 0 /\ ~validOptionalPort(SubSeq(hraw, c, Len(hraw)))) \/ ~h.ok \/ ~u.ok
      THEN [ok |-> FALSE, HasUser |-> FALSE, User |-> <<>>, Host |-> <<>>]
      ELSE [ok |-> TRUE, HasUser |-> i # 0, User |-> u.s, Host |-> h.s]

\* strings.Cut on a one-character separator: [before, after, found]
cutAt(s, i) ==
  IF i = 0 THEN [before |-> s, after |-> <<>>, found |-> FALSE]
  ELSE [before |-> SubSeq(s, 1, i - 1), after |-> SubSeq(s, i + 1, Len(s)), found |-> TRUE]

Cut(s, c) == cutAt(s, IndexChar(s, c))

\* (*URL).setPath, given the unescaped path: RawPath is kept only when it is
\* not the default encoding of Path.
setPathUnescaped(url, p, path) ==
  IF ~url.ok \/ ~path.ok THEN NoURL
  ELSE [ url EXCEPT !.Path = path.s,
                    !.RawPath = IF escape(path.s, "path") = p THEN <<>> ELSE p ]

\* (*URL).setPath
setPath(url, p) == setPathUnescaped(url, p, unescape(p, "path"))

\* The user and host parseAuthority returned, stored in the URL.
setAuthority(url, pa) ==
  IF ~pa.ok THEN NoURL
  ELSE [ url EXCEPT !.HasUser = pa.HasUser, !.User = pa.User, !.Host = pa.Host ]

\* url.parse from the authority on: authority is the text after "//" and i
\* the index of its first "/" (0 when it has none).
parseHier(url, authority, i) ==
  setPath(setAuthority(url, parseAuthority(IF i = 0 THEN authority
                                           ELSE SubSeq(authority, 1, i - 1))),
          IF i = 0 THEN <<>> ELSE SubSeq(authority, i, Len(authority)))

\* url.parse after the scheme and the query were cut off.
parseRest(scheme, rest, rawq) ==
  IF ~HasPrefix(rest, << "/" >>) /\ scheme # <<>>
  THEN [ NoURL EXCEPT !.ok = TRUE, !.Scheme = scheme, !.Opaque = rest, !.RawQuery = rawq ]
  ELSE IF ~HasPrefix(rest, << "/" >>) /\ IndexChar(Cut(rest, "/").before, ":") # 0
  THEN NoURL
  ELSE IF /\ (scheme # <<>> \/ ~HasPrefix(rest, << "/", "/", "/" >>))
          /\ HasPrefix(rest, << "/", "/" >>)
  THEN parseHier([ NoURL EXCEPT !.ok = TRUE, !.Scheme = scheme, !.RawQuery = rawq ],
                 SubSeq(rest, 3, Len(rest)), IndexChar(SubSeq(rest, 3, Len(rest)), "/"))
  ELSE setPath([ NoURL EXCEPT !.ok = TRUE, !.Scheme = scheme, !.RawQuery = rawq ], rest)

\* url.parse after getScheme; q is the rest cut at its first "?".
parseScheme(sch, q) ==
  IF ~sch.ok THEN NoURL ELSE parseRest(ToLower(sch.scheme), q.before, q.after)

\* url.parse (viaRequest false).  No URL handled here is "*" or ends in a lone
\* "?", so Path "*" and ForceQuery are left out.
parse(rawURL) == parseScheme(getScheme(rawURL), Cut(getScheme(rawURL).rest, "?"))

\* (*URL).setFragment
setFragment(url, f) ==
  IF ~url.ok \/ ~f.ok THEN NoURL ELSE [ url EXCEPT !.Fragment = f.s ]

\* url.Parse, given the raw URL cut at its first "#"
parseCut(c) == setFragment(parse(c.before), unescape(c.after, "path"))

\* url.Parse
Parse(rawURL) == parseCut(Cut(rawURL, "#"))

\* (*URL).Hostname: the host without a valid port.
Hostname(u) ==
  LET c == LastIndexChar(u.Host, ":")
  IN  IF c # 0 /\ validOptionalPort(SubSeq(u.Host, c, Len(u.Host)))
      THEN SubSeq(u.Host, 1, c - 1)
      ELSE u.Host

\* (*URL).EscapedPath
EscapedPath(u) ==
  IF /\ u.RawPath # <<>>
     /\ validEncoded(u.RawPath, "path")
     /\ unescape(u.RawPath, "path").ok
     /\ unescape(u.RawPath, "path").s = u.Path
  THEN u.RawPath
  ELSE escape(u.Path, "path")

\* (*URL).String, given the escaped path
stringWithPath(u, path) ==
  LET scheme == IF u.Scheme # <<>> THEN u.Scheme \o << ":" >> ELSE <<>>
      auth   == IF u.Scheme # <<>> \/ u.Host # <<>> \/ u.HasUser
                THEN (IF u.Host # <<>> \/ u.Path # <<>> \/ u.HasUser
                      THEN << "/", "/" >> ELSE <<>>)
                     \o (IF u.HasUser THEN escape(u.User, "user") \o << "@" >> ELSE <<>>)
                     \o escape(u.Host, "host")
                ELSE <<>>
      slash  == IF path # <<>> /\ path[1] # "/" /\ u.Host # <<>> THEN << "/" >> ELSE <<>>
      dot    == IF scheme = <<>> /\ u.Host = <<>> /\ ~u.HasUser
                   /\ IndexChar(Cut(path, "/").before, ":") # 0
                THEN << ".", "/" >> ELSE <<>>
      body   == IF u.Opaque # <<>> THEN u.Opaque ELSE auth \o slash \o dot \o path
      query  == IF u.RawQuery # <<>> THEN << "?" >> \o u.RawQuery ELSE <<>>
      frag   == IF u.Fragment # <<>> THEN << "#" >> \o escape(u.Fragment, "path") ELSE <<>>
  IN  scheme \o body \o query \o frag

\* (*URL).String
String(u) == stringWithPath(u, EscapedPath(u))

(***************************************************************************)
(* net/url: Values (a map from key to a list of values)                    *)
(***************************************************************************)

\* (Values).Encode: keys in sorted order, every value of a key in list order.
RECURSIVE EncodePairs(_, _)
EncodePairs(k, vs) ==
  IF vs = <<>> THEN <<>>
  ELSE << escape(k, "query") \o << "=" >> \o escape(Head(vs), "query") >>
       \o EncodePairs(k, Tail(vs))

RECURSIVE EncodeKeys(_, _)
EncodeKeys(v, keys) ==
  IF keys = <<>> THEN <<>>
  ELSE EncodePairs(Head(keys), v[Head(keys)]) \o EncodeKeys(v, Tail(keys))

Encode(v) == Join(EncodeKeys(v, SortedKeys(DOMAIN v)), << "&" >>)

\* (Values).Set
ValuesSet(v, key, value) ==
  [ k \in DOMAIN v \cup {key} |-> IF k = key THEN << value >> ELSE v[k] ]

\* (Values).Add
ValuesAdd(v, key, value) ==
  [ k \in DOMAIN v \cup {key} |-> IF k = key
                                  THEN (IF k \in DOMAIN v THEN v[k] ELSE <<>>) \o << value >>
                                  ELSE v[k] ]

EmptyMap == [ k \in {} |-> <<>> ]

\* url.ParseQuery (segments that fail to decode or hold ";" are skipped, as
\* in parseQuery, which records the error and continues).
RECURSIVE parseQuery(_, _)
parseQuery(m, segs) ==
  IF segs = <<>> THEN m
  ELSE LET seg == Head(segs)
           e   == IndexChar(seg, "=")
           k   == unescape(IF e = 0 THEN seg ELSE SubSeq(seg, 1, e - 1), "query")
           x   == unescape(IF e = 0 THEN <<>> ELSE SubSeq(seg, e + 1, Len(seg)), "query")
       IN  IF seg = <<>> \/ IndexChar(seg, ";") # 0 \/ ~k.ok \/ ~x.ok
           THEN parseQuery(m, Tail(segs))
           ELSE parseQuery(ValuesAdd(m, k.s, x.s), Tail(segs))

ParseQuery(query) == parseQuery(EmptyMap, Split(query, "&"))

(***************************************************************************)
(* net/http: Header (a map from key to a list of values)                   *)
(***************************************************************************)

\* textproto.validHeaderFieldByte: the token characters of RFC 7230.
validHeaderFieldByte(c) ==
  IsAlnum(c) \/ c \in { "!", "#", "$", "%", "&", "'", "*", "+", "-", ".", "^", "_",
                        "\\140", "|", "~" }

\* http.CanonicalHeaderKey: a key holding a byte that is no token character is
\* returned unchanged; otherwise the first letter and every letter after a
\* hyphen are upper-cased and the others lower-cased.
CanonicalHeaderKey(s) ==
  IF \E i \in 1..Len(s) : ~validHeaderFieldByte(s[i]) THEN s
  ELSE [ i \in 1..Len(s) |-> IF i = 1 \/ s[i - 1] = "-" THEN upperChar(s[i])
                                                         ELSE lowerChar(s[i]) ]

\* (Header).Values
HeaderValues(h, key) ==
  IF CanonicalHeaderKey(key) \in DOMAIN h THEN h[CanonicalHeaderKey(key)] ELSE <<>>

\* (Header).Get
HeaderGet(h, key) ==
  IF HeaderValues(h, key) = <<>> THEN <<>> ELSE HeaderValues(h, key)[1]

\* (Header).Set
HeaderSet(h, key, value) == ValuesSet(h, CanonicalHeaderKey(key), value)

\* (Header).Add
HeaderAdd(h, key, value) == ValuesAdd(h, CanonicalHeaderKey(key), value)

\* The header map the HTTP server hands to the handler for the header lines the
\* client sent, in order (textproto.ReadMIMEHeader: each name canonicalised,
\* the values of a repeated name appended in order).
RECURSIVE ReadMIMEHeader(_, _)
ReadMIMEHeader(h, lines) ==
  IF lines = <<>> THEN h
  ELSE ReadMIMEHeader(HeaderAdd(h, Head(lines).name, Head(lines).value), Tail(lines))

(***************************************************************************)
(* internal/service/proxy.go: fixed tables                                 *)
(***************************************************************************)

hAccept == << "A", "c", "c", "e", "p", "t" >>
hAcceptEncoding == << "A", "c", "c", "e", "p", "t", "-", "E", "n", "c", "o", "d", "i", "n", "g" >>
hAcceptLanguage == << "A", "c", "c", "e", "p", "t", "-", "L", "a", "n", "g", "u", "a", "g", "e" >>
hContentType == << "C", "o", "n", "t", "e", "n", "t", "-", "T", "y", "p", "e" >>
hContentLength == << "C", "o", "n", "t", "e", "n", "t", "-", "L", "e", "n", "g", "t", "h" >>
hContentEncoding == << "C", "o", "n", "t", "e", "n", "t", "-", "E", "n", "c", "o", "d", "i", "n", "g" >>
hCacheControl == << "C", "a", "c", "h", "e", "-", "C", "o", "n", "t", "r", "o", "l" >>
hDate == << "D", "a", "t", "e" >>
hXRequestId == << "X", "-", "R", "e", "q", "u", "e", "s", "t", "-", "I", "d" >>
hUserAgent == << "U", "s", "e", "r", "-", "A", "g", "e", "n", "t" >>
hXApiKey == << "X", "-", "A", "p", "i", "-", "K", "e", "y" >>

\* allowedUpstreamHosts
vulnersCom == << "v", "u", "l", "n", "e", "r", "s", ".", "c", "o", "m" >>
allowedUpstreamHosts == { vulnersCom }

\* forwardableRequestHeaders
forwardableRequestHeaders ==
  << hAccept, hAcceptEncoding, hAcceptLanguage, hContentType, hContentLength >>

\* forwardableResponseHeaders
forwardableResponseHeaders ==
  { hContentType, hContentLength, hContentEncoding, hCacheControl, hDate, hXRequestId }

\* const userAgent
userAgent == << "v", "u", "l", "n", "e", "r", "s", "-", "p", "r", "o", "x", "y", "-", "g", "o", "/", "1", ".", "0" >>

\* The vendor prefix tested by filterRequestHeaders.
vulnersPrefix == << "x", "-", "v", "u", "l", "n", "e", "r", "s", "-" >>

\* The query parameter set by buildUpstreamURL.
apiKeyParam == << "a", "p", "i", "K", "e", "y" >>

\* The scheme required by Config.validate.
https == << "h", "t", "t", "p", "s" >>

(***************************************************************************)
(* internal/service/proxy.go: pure functions                               *)
(***************************************************************************)

\* NewProxyService without the allowlist test: every parseable base URL is
\* accepted.
NewProxyServiceAnyHost(cfg) ==
  LET u == Parse(cfg.BaseURL)
  IN  IF ~u.ok THEN [ok |-> FALSE, baseURL |-> NoURL]
      ELSE [ok |-> TRUE, baseURL |-> u]

\* NewProxyService: [ok, baseURL]; ok is FALSE when an error and no service
\* are returned.
NewProxyService(cfg) ==
  LET u == Parse(cfg.BaseURL)
  IN  IF ~u.ok THEN [ok |-> FALSE, baseURL |-> NoURL]
      ELSE IF Hostname(u) \notin allowedUpstreamHosts THEN [ok |-> FALSE, baseURL |-> NoURL]
      ELSE [ok |-> TRUE, baseURL |-> u]

\* resolveAPIKey with the precedence reversed: the header first, the shared
\* key as the fallback.
resolveAPIKeyHeaderFirst(cfg, header) ==
  IF HeaderGet(header, hXApiKey) # <<>> THEN HeaderGet(header, hXApiKey) ELSE cfg.APIKey

\* (*ProxyService).resolveAPIKey
resolveAPIKey(cfg, header) ==
  IF cfg.APIKey # <<>> THEN cfg.APIKey ELSE HeaderGet(header, hXApiKey)

\* buildUpstreamURL by concatenation: the inbound path appended to the base
\* URL as text, unescaped.
buildUpstreamURLConcat(baseURL, path, query, apiKey) ==
  baseURL.Scheme \o << ":", "/", "/" >> \o baseURL.Host \o path
    \o << "?" >> \o Encode(ValuesSet([ k \in DOMAIN query |-> query[k] ], apiKeyParam, apiKey))

\* (*ProxyService).buildUpstreamURL: a copy of the base URL with the path
\* replaced, every inbound query entry copied and "apiKey" set.
buildUpstreamURL(baseURL, path, query, apiKey) ==
  LET q == ValuesSet([ k \in DOMAIN query |-> query[k] ], apiKeyParam, apiKey)
  IN  String([ baseURL EXCEPT !.Path = path, !.RawQuery = Encode(q) ])

\* filterRequestHeaders without the allow-list: every inbound header is
\* forwarded and User-Agent is set.
filterRequestHeadersAll(src) == HeaderSet(src, hUserAgent, userAgent)

\* filterRequestHeaders with Add in place of Set for User-Agent, on the
\* inbound header map: a client User-Agent stays ahead of the proxy's.
filterRequestHeadersAddAgent(src) == HeaderAdd(src, hUserAgent, userAgent)

\* filterRequestHeaders without the loop over the x-vulners- headers.
filterRequestHeadersNoVendor(src) ==
  HeaderSet([ K \in { k \in DOMAIN src :
                        \E i \in 1..Len(forwardableRequestHeaders) :
                           forwardableRequestHeaders[i] = k }
                |-> src[K] ], hUserAgent, userAgent)

\* (*ProxyService).filterRequestHeaders.  The second loop ranges over the map
\* in an unspecified order; two keys of src with the same canonical form do not
\* occur in a header map the server built, and the first in key order stands
\* for either here.
filterRequestHeaders(src) ==
  LET fwd  == { forwardableRequestHeaders[i] : i \in 1..Len(forwardableRequestHeaders) }
      keep == { k \in fwd : Len(HeaderValues(src, k)) > 0 }
      vend == { k \in DOMAIN src : HasPrefix(ToLower(k), vulnersPrefix) }
      from(K) == CHOOSE k \in vend : /\ CanonicalHeaderKey(k) = K
                                     /\ \A j \in vend : CanonicalHeaderKey(j) = K =>
                                                          (j = k \/ StrLess(k, j))
      names == { CanonicalHeaderKey(k) : k \in keep \cup vend }
      dst  == [ K \in names |->
                  IF \E k \in vend : CanonicalHeaderKey(k) = K THEN src[from(K)]
                  ELSE HeaderValues(src, K) ]
  IN  HeaderSet(dst, hUserAgent, userAgent)

\* filterResponseHeaders without the allow-list: every upstream header is
\* passed on.
filterResponseHeadersAll(src) == src

\* (*ProxyService).filterResponseHeaders
filterResponseHeaders(src) ==
  [ key \in { k \in DOMAIN src : CanonicalHeaderKey(k) \in forwardableResponseHeaders }
      |-> src[key] ]

(***************************************************************************)
(* internal/config/config.go: Config.validate                              *)
(***************************************************************************)

placeholderKey == << "Y", "O", "U", "R", "_", "A", "P", "I", "_", "K", "E", "Y", "_", "H", "E", "R", "E" >>

lvlDebug == << "d", "e", "b", "u", "g" >>
lvlInfo == << "i", "n", "f", "o" >>
lvlWarn == << "w", "a", "r", "n" >>
lvlError == << "e", "r", "r", "o", "r" >>
fmtJSON == << "j", "s", "o", "n" >>
fmtText == << "t", "e", "x", "t" >>

routeV3 == << "/", "a", "p", "i", "/", "v", "3" >>
routeV4 == << "/", "a", "p", "i", "/", "v", "4" >>
routeHealthz == << "/", "h", "e", "a", "l", "t", "h", "z" >>
routeStatus == << "/", "p", "r", "o", "x", "y", "/", "s", "t", "a", "t", "u", "s" >>

reservedRoutes == { routeV3, routeV4, routeHealthz, routeStatus }

\* Config.validate without the scheme test.
validateAnyScheme(c) ==
  LET u == Parse(c.BaseURL)
  IN  /\ c.APIKey # placeholderKey
      /\ c.BaseURL # <<>>
      /\ u.ok
      /\ ~(c.Port < 0 \/ c.Port > 65535)
      /\ ~(c.BodyMaxBytes < 0)
      /\ ~(c.TimeoutSeconds < 0)
      /\ ~(c.IdleConnections < 0)
      /\ ~(c.RateLimitEnabled /\ c.RequestsPerSecond <= 0)
      /\ ToLower(c.LogLevel) \in { lvlDebug, lvlInfo, lvlWarn, lvlError, <<>> }
      /\ ToLower(c.LogFormat) \in { fmtJSON, fmtText, <<>> }
      /\ (c.MetricsEnabled /\ c.MetricsPath # <<>>) =>
            /\ c.MetricsPath[1] = "/"
            /\ \A r \in reservedRoutes :
                  ~(c.MetricsPath = r \/ HasPrefix(c.MetricsPath, r \o << "/" >>))

\* Config.validate: TRUE when it returns nil.
validate(c) ==
  LET u == Parse(c.BaseURL)
  IN  /\ c.APIKey # placeholderKey
      /\ c.BaseURL # <<>>
      /\ u.ok
      /\ u.Scheme = https
      /\ ~(c.Port < 0 \/ c.Port > 65535)
      /\ ~(c.BodyMaxBytes < 0)
      /\ ~(c.TimeoutSeconds < 0)
      /\ ~(c.IdleConnections < 0)
      /\ ~(c.RateLimitEnabled /\ c.RequestsPerSecond <= 0)
      /\ ToLower(c.LogLevel) \in { lvlDebug, lvlInfo, lvlWarn, lvlError, <<>> }
      /\ ToLower(c.LogFormat) \in { fmtJSON, fmtText, <<>> }
      /\ (c.MetricsEnabled /\ c.MetricsPath # <<>>) =>
            /\ c.MetricsPath[1] = "/"
            /\ \A r \in reservedRoutes :
                  ~(c.MetricsPath = r \/ HasPrefix(c.MetricsPath, r \o << "/" >>))

(***************************************************************************)
(* Errors: an error value is its Unwrap chain, outermost first.  A node is *)
(* [kind, msg]; kind is what errors.Is / errors.As test:                   *)
(*   "missing"   service.ErrMissingAPIKey                                  *)
(*   "deadline"  context.DeadlineExceeded, or a timeout error whose Is     *)
(*               method answers for it                                     *)
(*   "canceled"  context.Canceled                                          *)
(*   "dns"       *net.DNSError                                             *)
(*   "url"       *url.Error                                                *)
(*   "fmt"       a fmt.Errorf("...: %w") wrapper                           *)
(*   "op"        *net.OpError                                              *)
(*   "str"       any other error                                           *)
(***************************************************************************)

\* errors.Is against a sentinel / errors.As against a type.
errorsIs(err, kind) == \E i \in 1..Len(err) : err[i].kind = kind

\* (error).Error: every wrapper prints its own text, ": " and the wrapped text.
ErrorText(err) == Join([ i \in 1..Len(err) |-> err[i].msg ], << ":", " " >>)

msgErrMissingAPIKey == << "A", "P", "I", " ", "k", "e", "y", " ", "r", "e", "q", "u", "i", "r", "e", "d", ":", " ", "s", "e", "t", " ", "v", "u", "l", "n", "e", "r", "s", ".", "a", "p", "i", "_", "k", "e", "y", " ", "i", "n", " ", "c", "o", "n", "f", "i", "g", " ", "o", "r", " ", "s", "e", "n", "d", " ", "X", "-", "A", "p", "i", "-", "K", "e", "y", " ", "h", "e", "a", "d", "e", "r" >>

\* var ErrMissingAPIKey
ErrMissingAPIKey == << [kind |-> "missing", msg |-> msgErrMissingAPIKey] >>

msgForward == << "f", "o", "r", "w", "a", "r", "d", " ", "t", "o", " ", "u", "p", "s", "t", "r", "e", "a", "m" >>
msgUpstreamRequest == << "u", "p", "s", "t", "r", "e", "a", "m", " ", "r", "e", "q", "u", "e", "s", "t" >>

\* fmt.Errorf("forward to upstream: %w", err) in Forward
wrapForward(err) == << [kind |-> "fmt", msg |-> msgForward] >> \o err

\* fmt.Errorf("upstream request: %w", err) in (*VulnersClient).Do
wrapUpstreamRequest(err) == << [kind |-> "fmt", msg |-> msgUpstreamRequest] >> \o err

(***************************************************************************)
(* internal/handler/proxy.go: sanitizeError and mapError                   *)
(***************************************************************************)

apikeyEq == << "a", "p", "i", "k", "e", "y", "=" >>
redacted == << "[", "R", "E", "D", "A", "C", "T", "E", "D", "]" >>

\* The characters that end a match of [^&\s"]+ .
IsTokenStop(c) == c \in { "&", " ", "\"" }

\* apiKeyPattern.ReplaceAllString(text, "${1}[REDACTED]") for the pattern
\* (?i)(apiKey=)[^&\s"]+ : leftmost matches, none overlapping, each as long
\* as possible.
RECURSIVE redactFrom(_, _)
redactFrom(s, i) ==
  LET starts == { j \in i..(Len(s) - 7) : /\ ToLower(SubSeq(s, j, j + 6)) = apikeyEq
                                          /\ ~IsTokenStop(s[j + 7]) }
  IN  IF starts = {} THEN SubSeq(s, i, Len(s))
      ELSE LET m     == CHOOSE j \in starts : \A k \in starts : j <= k
               stops == { j \in (m + 7)..Len(s) : IsTokenStop(s[j]) }
               e     == IF stops = {} THEN Len(s) + 1
                        ELSE CHOOSE j \in stops : \A k \in stops : j <= k
           IN  SubSeq(s, i, m + 6) \o redacted \o redactFrom(s, e)

\* sanitizeError without the redaction.
sanitizeErrorNone(err) == ErrorText(err)

\* sanitizeError
sanitizeError(err) == redactFrom(ErrorText(err), 1)

msg401 == << "A", "P", "I", " ", "k", "e", "y", " ", "r", "e", "q", "u", "i", "r", "e", "d", ":", " ", "s", "e", "t", " ", "a", "p", "i", "_", "k", "e", "y", " ", "i", "n", " ", "c", "o", "n", "f", "i", "g", " ", "o", "r", " ", "s", "e", "n", "d", " ", "X", "-", "A", "p", "i", "-", "K", "e", "y", " ", "h", "e", "a", "d", "e", "r" >>
msgTimedOut == << "u", "p", "s", "t", "r", "e", "a", "m", " ", "r", "e", "q", "u", "e", "s", "t", " ", "t", "i", "m", "e", "d", " ", "o", "u", "t" >>
msgDisconnected == << "c", "l", "i", "e", "n", "t", " ", "d", "i", "s", "c", "o", "n", "n", "e", "c", "t", "e", "d" >>
msgUnreachable == << "u", "p", "s", "t", "r", "e", "a", "m", " ", "h", "o", "s", "t", " ", "u", "n", "r", "e", "a", "c", "h", "a", "b", "l", "e" >>
msgConnFailed == << "u", "p", "s", "t", "r", "e", "a", "m", " ", "c", "o", "n", "n", "e", "c", "t", "i", "o", "n", " ", "f", "a", "i", "l", "e", "d" >>
msgReqFailed == << "u", "p", "s", "t", "r", "e", "a", "m", " ", "r", "e", "q", "u", "e", "s", "t", " ", "f", "a", "i", "l", "e", "d" >>

StatusUnauthorized == 401
StatusBadGateway == 502
StatusGatewayTimeout == 504

\* c.JSON(code, map[string]string{"error": msg}): the status and the one field
\* of the JSON object written to the client.
JSONError(code, msg) == [status |-> code, error |-> msg]

\* mapError without the missing-credential rule.
mapErrorNoMissingRule(err) ==
  IF errorsIs(err, "deadline") THEN JSONError(StatusGatewayTimeout, msgTimedOut)
  ELSE IF errorsIs(err, "canceled") THEN JSONError(StatusBadGateway, msgDisconnected)
  ELSE IF errorsIs(err, "dns") THEN JSONError(StatusBadGateway, msgUnreachable)
  ELSE IF errorsIs(err, "url") THEN JSONError(StatusBadGateway, msgConnFailed)
  ELSE JSONError(StatusBadGateway, msgReqFailed)

\* mapError with the URL-error rule tried before the DNS rule.
mapErrorURLBeforeDNS(err) ==
  IF errorsIs(err, "missing") THEN JSONError(StatusUnauthorized, msg401)
  ELSE IF errorsIs(err, "deadline") THEN JSONError(StatusGatewayTimeout, msgTimedOut)
  ELSE IF errorsIs(err, "canceled") THEN JSONError(StatusBadGateway, msgDisconnected)
  ELSE IF errorsIs(err, "url") THEN JSONError(StatusBadGateway, msgConnFailed)
  ELSE IF errorsIs(err, "dns") THEN JSONError(StatusBadGateway, msgUnreachable)
  ELSE JSONError(StatusBadGateway, msgReqFailed)

\* mapError answering an unclassified failure with the text of the error.
mapErrorRawText(err) ==
  IF errorsIs(err, "missing") THEN JSONError(StatusUnauthorized, msg401)
  ELSE IF errorsIs(err, "deadline") THEN JSONError(StatusGatewayTimeout, msgTimedOut)
  ELSE IF errorsIs(err, "canceled") THEN JSONError(StatusBadGateway, msgDisconnected)
  ELSE IF errorsIs(err, "dns") THEN JSONError(StatusBadGateway, msgUnreachable)
  ELSE IF errorsIs(err, "url") THEN JSONError(StatusBadGateway, msgConnFailed)
  ELSE JSONError(StatusBadGateway, ErrorText(err))

\* (*ProxyHandler).mapError: the response written to the client.
mapError(err) ==
  IF errorsIs(err, "missing") THEN JSONError(StatusUnauthorized, msg401)
  ELSE IF errorsIs(err, "deadline") THEN JSONError(StatusGatewayTimeout, msgTimedOut)
  ELSE IF errorsIs(err, "canceled") THEN JSONError(StatusBadGateway, msgDisconnected)
  ELSE IF errorsIs(err, "dns") THEN JSONError(StatusBadGateway, msgUnreachable)
  ELSE IF errorsIs(err, "url") THEN JSONError(StatusBadGateway, msgConnFailed)
  ELSE JSONError(StatusBadGateway, msgReqFailed)

(***************************************************************************)
(* internal/metrics/metrics.go.  A counter vector and a histogram vector   *)
(* are bags of label tuples: the copies of a tuple are the value of the    *)
(* counter, or the number of samples observed, under these labels.         *)
(***************************************************************************)

\* var knownMethods
knownMethods == { << "G", "E", "T" >>, << "P", "O", "S", "T" >>, << "P", "U", "T" >>, << "D", "E", "L", "E", "T", "E" >>, << "P", "A", "T", "C", "H" >>, << "H", "E", "A", "D" >>, << "O", "P", "T", "I", "O", "N", "S" >> }

other == << "o", "t", "h", "e", "r" >>

\* NormalizeMethod that folds the case of the method first.
NormalizeMethodFold(method) ==
  IF [ i \in 1..Len(method) |-> upperChar(method[i]) ] \in knownMethods
  THEN [ i \in 1..Len(method) |-> upperChar(method[i]) ] ELSE other

\* NormalizeMethod
NormalizeMethod(method) == IF method \in knownMethods THEN method ELSE other

\* var knownPrefixes
knownPrefixes == << << "/", "a", "p", "i", "/", "v", "3" >>, << "/", "a", "p", "i", "/", "v", "4" >>, << "/", "h", "e", "a", "l", "t", "h", "z" >>, << "/", "p", "r", "o", "x", "y", "/", "s", "t", "a", "t", "u", "s" >>, << "/", "m", "e", "t", "r", "i", "c", "s" >> >>

\* NormalizePath: the first prefix of knownPrefixes that matches.
NormalizePath(path) ==
  LET hit == { i \in 1..Len(knownPrefixes) :
                 \/ path = knownPrefixes[i]
                 \/ HasPrefix(path, knownPrefixes[i] \o << "/" >>)
                 \/ HasPrefix(path, knownPrefixes[i] \o << "?" >>) }
  IN  IF hit = {} THEN other
      ELSE knownPrefixes[CHOOSE i \in hit : \A j \in hit : i <= j]

\* strconv.Itoa
RECURSIVE Itoa(_)
Itoa(n) ==
  IF n < 0 THEN << "-" >> \o Itoa(0 - n)
  ELSE IF n < 10 THEN << Chr(48 + n) >>
  ELSE Itoa(n \div 10) \o << Chr(48 + (n % 10)) >>

\* A nil *Metrics: nothing is recorded.
NilMetrics ==
  [ on |-> FALSE, RequestsTotal |-> EmptyBag, RequestDuration |-> EmptyBag,
    RequestsInFlight |-> 0, UpstreamDuration |-> EmptyBag, UpstreamResponses |-> EmptyBag ]

\* New: the collectors, nothing recorded yet.
New == [ NilMetrics EXCEPT !.on = TRUE ]

\* newMetrics in main
newMetrics(c) == IF ~c.MetricsEnabled THEN NilMetrics ELSE New

\* (*CounterVec).WithLabelValues(labels...).Inc and
\* (*HistogramVec).WithLabelValues(labels...).Observe
WithLabelValuesInc(vec, labels) == vec (+) SetToBag({ labels })

\* The recording of (*VulnersClient).Do without the duration of a failed call.
DoRecordSuccessOnly(mm, method, failed, statusCode) ==
  IF ~mm.on \/ failed THEN mm
  ELSE [ mm EXCEPT
           !.UpstreamDuration = WithLabelValuesInc(@, << NormalizeMethod(method) >>),
           !.UpstreamResponses =
              WithLabelValuesInc(@, << NormalizeMethod(method), Itoa(statusCode) >>) ]

\* What (*VulnersClient).Do records of a call that failed, or that returned a
\* response with statusCode.
DoRecord(mm, method, failed, statusCode) ==
  IF ~mm.on THEN mm
  ELSE IF failed
  THEN [ mm EXCEPT
           !.UpstreamDuration = WithLabelValuesInc(@, << NormalizeMethod(method) >>) ]
  ELSE [ mm EXCEPT
           !.UpstreamDuration = WithLabelValuesInc(@, << NormalizeMethod(method) >>),
           !.UpstreamResponses =
              WithLabelValuesInc(@, << NormalizeMethod(method), Itoa(statusCode) >>) ]

(***************************************************************************)
(* internal/config/config.go: Config.setDefaults                           *)
(***************************************************************************)

\* (*Config).setDefaults
setDefaults(c) ==
  [ c EXCEPT !.Host = IF @ = <<>> THEN << "0", ".", "0", ".", "0", ".", "0" >> ELSE @,
             !.Port = IF @ = 0 THEN 8000 ELSE @,
             !.BodyMaxBytes = IF @ = 0 THEN 10 * 1024 * 1024 ELSE @,
             !.TimeoutSeconds = IF @ = 0 THEN 120 ELSE @,
             !.IdleConnections = IF @ = 0 THEN 100 ELSE @,
             !.LogLevel = IF @ = <<>> THEN lvlInfo ELSE @,
             !.LogFormat = IF @ = <<>> THEN fmtJSON ELSE @,
             !.MetricsPath = IF @ = <<>> THEN << "/", "m", "e", "t", "r", "i", "c", "s" >> ELSE @ ]

(***************************************************************************)
(* The routes: RegisterRoutes and the metrics route of newEcho, as the     *)
(* router of echo resolves a method and a path against them.               *)
(***************************************************************************)

\* The methods e.Any registers a route under.
anyMethods ==
  { << "C", "O", "N", "N", "E", "C", "T" >>, << "D", "E", "L", "E", "T", "E" >>, << "G", "E", "T" >>, << "H", "E", "A", "D" >>, << "O", "P", "T", "I", "O", "N", "S" >>, << "P", "A", "T", "C", "H" >>, << "P", "O", "S", "T" >>,
    << "P", "R", "O", "P", "F", "I", "N", "D" >>, << "P", "U", "T" >>, << "T", "R", "A", "C", "E" >>, << "R", "E", "P", "O", "R", "T" >> }

\* The paths registered with e.GET: /healthz and /proxy/status, and the
\* metrics path when metrics are enabled.
getRoutes(c) ==
  [ p \in { << "/", "h", "e", "a", "l", "t", "h", "z" >>, << "/", "p", "r", "o", "x", "y", "/", "s", "t", "a", "t", "u", "s" >> } \cup
          (IF c.MetricsEnabled THEN { c.MetricsPath } ELSE {})
      |-> IF p = << "/", "h", "e", "a", "l", "t", "h", "z" >> THEN "healthz"
          ELSE IF p = << "/", "p", "r", "o", "x", "y", "/", "s", "t", "a", "t", "u", "s" >> THEN "status" ELSE "metrics" ]

\* The routes with the two templates registered for GET only.
FindRouteGetOnly(c, method, path) ==
  IF HasPrefix(path, << "/", "a", "p", "i", "/", "v", "3", "/" >>) \/ HasPrefix(path, << "/", "a", "p", "i", "/", "v", "4", "/" >>)
  THEN (IF method = << "G", "E", "T" >> THEN "proxy" ELSE "notallowed")
  ELSE IF path \in DOMAIN getRoutes(c)
  THEN (IF method = << "G", "E", "T" >> THEN getRoutes(c)[path] ELSE "notallowed")
  ELSE "notfound"

\* The handler the router finds: "proxy" is ProxyHandler.Handle, "notfound"
\* the handler answering 404 for a path no route matches, "notallowed" the one
\* answering 405 for a path whose routes are registered for other methods.
FindRoute(c, method, path) ==
  IF HasPrefix(path, << "/", "a", "p", "i", "/", "v", "3", "/" >>) \/ HasPrefix(path, << "/", "a", "p", "i", "/", "v", "4", "/" >>)
  THEN (IF method \in anyMethods THEN "proxy" ELSE "notallowed")
  ELSE IF path \in DOMAIN getRoutes(c)
  THEN (IF method = << "G", "E", "T" >> THEN getRoutes(c)[path] ELSE "notallowed")
  ELSE "notfound"

(***************************************************************************)
(* The state                                                               *)
(***************************************************************************)

VARIABLES
  cfg,            \* the configuration (config.Config)
  validated,      \* outcome of Config.validate: "unset", "ok" or "err"
  svc,            \* outcome of NewProxyService: [made, ok, baseURL]
  pc,             \* position of the request: "idle", "upstream", "streaming", "done"
  req,            \* the inbound request as the client sent it
  pr,             \* the model.ProxyRequest Handle built from it
  apiKey,         \* the credential Forward resolved
  out,            \* the outbound request handed to the upstream transport
  upstreamCalls,  \* number of upstream calls made for the request
  upResp,         \* the response the upstream sent, as the HTTP client read it
  fwd,            \* what Forward returned: [state, err, resp]
  client,         \* what has been written to the client
  bodyOpen,       \* whether the upstream body stream is open
  log,            \* the entries logged, in order
  ret,            \* what Handle returned: "none" while it runs, then "nil"
  closes,         \* number of times the upstream body stream was closed
  ctx,            \* the inbound request context: [canceled, at, snap]
  conc,           \* the locals of each of the concurrent calls of Handle
  mw,             \* position in the middleware chain: "none", "inside" or "after"
  res,            \* c.Response(): [header, committed]
  metrics,        \* the *metrics.Metrics main created: the collectors and their values
  mreq,           \* the calls of MetricsMiddleware, one per concurrent request
  loaded          \* what Load returned: [called, cli, err, cfg]

vars == << cfg, validated, svc, pc, req, pr, apiKey, out, upstreamCalls, upResp, fwd,
           client, bodyOpen, log, ret, closes, ctx, conc, mw, res, metrics, mreq, loaded >>

(***************************************************************************)
(* Inputs                                                                  *)
(***************************************************************************)

\* Longest list of query segments / header lines / body chunks drawn for a
\* request, and the longest error chain handed to mapError directly.
MaxQuerySegs == 2
MaxHeaderLines == 2
MaxChunks == 2
MaxErrDepth == 3

\* All sequences over S of length at most n.
SeqsUpTo(S, n) == UNION { [ 1..k -> S ] : k \in 0..n }

K1 == << "K", "1" >>
K2 == << "K", "2" >>
Kodd == << "k", "&", "x", "=", "1", " ", "#" >>

\* upstream.base_url values tried at startup.
BaseURLPool ==
  { << "h", "t", "t", "p", "s", ":", "/", "/", "v", "u", "l", "n", "e", "r", "s", ".", "c", "o", "m" >>,
    << "h", "t", "t", "p", "s", ":", "/", "/", "e", "v", "i", "l", ".", "c", "o", "m" >>,
    << "h", "t", "t", "p", "s", ":", "/", "/", "v", "u", "l", "n", "e", "r", "s", ".", "c", "o", "m", ".", "e", "v", "i", "l", ".", "c", "o", "m" >>,
    << "h", "t", "t", "p", "s", ":", "/", "/", "V", "U", "L", "N", "E", "R", "S", ".", "C", "O", "M" >>,
    << "h", "t", "t", "p", "s", ":", "/", "/", "v", "u", "l", "n", "e", "r", "s", ".", "c", "o", "m", ":", "8", "4", "4", "3" >>,
    << "h", "t", "t", "p", "s", ":", "/", "/", "v", "u", "l", "n", "e", "r", "s", ".", "c", "o", "m", "@", "e", "v", "i", "l", ".", "c", "o", "m" >>,
    << "h", "t", "t", "p", "s", ":", "/", "/", "e", "v", "i", "l", ".", "c", "o", "m", "@", "v", "u", "l", "n", "e", "r", "s", ".", "c", "o", "m" >>,
    << "h", "t", "t", "p", "s", ":", "/", "/", "v", "u", "l", "n", "e", "r", "s", ".", "c", "o", "m", ":", "x" >>,
    << "h", "t", "t", "p", ":", "/", "/", "v", "u", "l", "n", "e", "r", "s", ".", "c", "o", "m" >>,
    << "h", "t", "t", "p", ":", "/", "/", "e", "v", "i", "l", ".", "c", "o", "m" >>,
    << "h", "t", "t", "p", ":", "/", "/", "v", "u", "l", "n", "e", "r", "s", ".", "c", "o", "m", ".", "e", "v", "i", "l", ".", "c", "o", "m" >>,
    << "h", "t", "t", "p", ":", "/", "/", "V", "U", "L", "N", "E", "R", "S", ".", "C", "O", "M" >>,
    << "h", "t", "t", "p", ":", "/", "/", "v", "u", "l", "n", "e", "r", "s", ".", "c", "o", "m", ":", "8", "4", "4", "3" >>,
    << "h", "t", "t", "p", ":", "/", "/", "v", "u", "l", "n", "e", "r", "s", ".", "c", "o", "m", "@", "e", "v", "i", "l", ".", "c", "o", "m" >>,
    << "h", "t", "t", "p", ":", "/", "/", "e", "v", "i", "l", ".", "c", "o", "m", "@", "v", "u", "l", "n", "e", "r", "s", ".", "c", "o", "m" >>,
    << "h", "t", "t", "p", ":", "/", "/", "v", "u", "l", "n", "e", "r", "s", ".", "c", "o", "m", ":", "x" >>,
    << "f", "t", "p", ":", "/", "/", "v", "u", "l", "n", "e", "r", "s", ".", "c", "o", "m" >>,
    << "f", "t", "p", ":", "/", "/", "e", "v", "i", "l", ".", "c", "o", "m" >>,
    << "f", "t", "p", ":", "/", "/", "v", "u", "l", "n", "e", "r", "s", ".", "c", "o", "m", ".", "e", "v", "i", "l", ".", "c", "o", "m" >>,
    << "f", "t", "p", ":", "/", "/", "V", "U", "L", "N", "E", "R", "S", ".", "C", "O", "M" >>,
    << "f", "t", "p", ":", "/", "/", "v", "u", "l", "n", "e", "r", "s", ".", "c", "o", "m", ":", "8", "4", "4", "3" >>,
    << "f", "t", "p", ":", "/", "/", "v", "u", "l", "n", "e", "r", "s", ".", "c", "o", "m", "@", "e", "v", "i", "l", ".", "c", "o", "m" >>,
    << "f", "t", "p", ":", "/", "/", "e", "v", "i", "l", ".", "c", "o", "m", "@", "v", "u", "l", "n", "e", "r", "s", ".", "c", "o", "m" >>,
    << "f", "t", "p", ":", "/", "/", "v", "u", "l", "n", "e", "r", "s", ".", "c", "o", "m", ":", "x" >>,
    << "/", "/", "v", "u", "l", "n", "e", "r", "s", ".", "c", "o", "m" >>,
    << "/", "/", "e", "v", "i", "l", ".", "c", "o", "m" >>,
    << "/", "/", "v", "u", "l", "n", "e", "r", "s", ".", "c", "o", "m", ".", "e", "v", "i", "l", ".", "c", "o", "m" >>,
    << "/", "/", "V", "U", "L", "N", "E", "R", "S", ".", "C", "O", "M" >>,
    << "/", "/", "v", "u", "l", "n", "e", "r", "s", ".", "c", "o", "m", ":", "8", "4", "4", "3" >>,
    << "/", "/", "v", "u", "l", "n", "e", "r", "s", ".", "c", "o", "m", "@", "e", "v", "i", "l", ".", "c", "o", "m" >>,
    << "/", "/", "e", "v", "i", "l", ".", "c", "o", "m", "@", "v", "u", "l", "n", "e", "r", "s", ".", "c", "o", "m" >>,
    << "/", "/", "v", "u", "l", "n", "e", "r", "s", ".", "c", "o", "m", ":", "x" >>,
    << "v", "u", "l", "n", "e", "r", "s", ".", "c", "o", "m" >>,
    << "e", "v", "i", "l", ".", "c", "o", "m" >>,
    << "v", "u", "l", "n", "e", "r", "s", ".", "c", "o", "m", ".", "e", "v", "i", "l", ".", "c", "o", "m" >>,
    << "V", "U", "L", "N", "E", "R", "S", ".", "C", "O", "M" >>,
    << "v", "u", "l", "n", "e", "r", "s", ".", "c", "o", "m", ":", "8", "4", "4", "3" >>,
    << "v", "u", "l", "n", "e", "r", "s", ".", "c", "o", "m", "@", "e", "v", "i", "l", ".", "c", "o", "m" >>,
    << "e", "v", "i", "l", ".", "c", "o", "m", "@", "v", "u", "l", "n", "e", "r", "s", ".", "c", "o", "m" >>,
    << "v", "u", "l", "n", "e", "r", "s", ".", "c", "o", "m", ":", "x" >>,
    <<>>,
    << "H", "T", "T", "P", "S", ":", "/", "/", "v", "u", "l", "n", "e", "r", "s", ".", "c", "o", "m" >>,
    << "h", "t", "t", "p", "s", ":", "v", "u", "l", "n", "e", "r", "s", ".", "c", "o", "m" >>,
    << "h", "t", "t", "p", "s", ":", "/", "/", "v", "u", "l", "n", "e", "r", "s", ".", "c", "o", "m", "/", "b", "a", "s", "e" >>,
    << "h", "t", "t", "p", "s", ":", "/", "/", "v", "u", "l", "n", "e", "r", "s", ".", "c", "o", "m", "/", "%", "z", "z" >>,
    << "h", "t", "t", "p", "s", ":", "/", "/", "v", "u", "l", "n", "e", "r", "s", ".", "c", "o", "m", "?", "x", "=", "1", "#", "f", "r", "a", "g" >>,
    << "h", "t", "t", "p", "s", ":", "/", "/", "/", "v", "u", "l", "n", "e", "r", "s", ".", "c", "o", "m" >> }

APIKeyPool == { <<>>, K1, placeholderKey }

DefaultConfig ==
  [ Host |-> <<>>, APIKey |-> <<>>, BaseURL |-> <<>>, Port |-> 8000, BodyMaxBytes |-> 1024,
    TimeoutSeconds |-> 120, IdleConnections |-> 100, RateLimitEnabled |-> FALSE,
    RequestsPerSecond |-> 0, LogLevel |-> lvlInfo, LogFormat |-> fmtJSON,
    MetricsEnabled |-> FALSE, MetricsPath |-> <<>> ]

ConfigPool ==
  { [ DefaultConfig EXCEPT !.APIKey = k, !.BaseURL = b ] : k \in APIKeyPool, b \in BaseURLPool }

\* The configurations main starts serving with: Load validated them and
\* NewProxyService accepted them.
RunningConfigs == { c \in ConfigPool : validate(c) /\ NewProxyService(c).ok }

\* Inbound paths: the router hands Handle only paths under the two templates
\* /api/v3/* and /api/v4/*, already decoded.
PathPool ==
  { << "/", "a", "p", "i", "/", "v", "3", "/", "s", "e", "a", "r", "c", "h", "/", "l", "u", "c", "e", "n", "e", "/" >>,
    << "/", "a", "p", "i", "/", "v", "3", "/", "x", "?", "y", "#", "z" >>,
    << "/", "a", "p", "i", "/", "v", "3", "/", "/", "e", "v", "i", "l", ".", "c", "o", "m", "/", "%", "4", "1" >>,
    << "/", "a", "p", "i", "/", "v", "4", "/", "@", "e", "v", "i", "l", ".", "c", "o", "m", ":", "8", "0", "/", "a", " ", "b" >> }

\* Segments of the inbound raw query, joined with "&".
QuerySegPool ==
  { << "q", "u", "e", "r", "y", "=", "c", "v", "e", "-", "2", "0", "2", "4", "-", "1", "2", "3", "4" >>,
    << "a", "p", "i", "K", "e", "y", "=", "s", "e", "c", "r", "e", "t" >>,
    << "a", "p", "i", "k", "e", "y", "=", "s", "e", "c", "r", "e", "t" >>,
    << "A", "p", "i", "K", "e", "y", "=", "s", "2" >>,
    << "A", "P", "I", "K", "E", "Y", "=", "s", "e", "c", "r", "e", "t" >>,
    << "a", "p", "i", "_", "k", "e", "y", "=", "s", "e", "c", "r", "e", "t" >>,
    << "A", "P", "I", "_", "K", "E", "Y", "=", "s", "2" >>,
    << "a", "%", "2", "6", "b", "=", "x", "+", "y", "%", "3", "D" >> }

RawQueryPool ==
  { Join(q, << "&" >>) : q \in SeqsUpTo(QuerySegPool, MaxQuerySegs) }

\* Header lines a client may send, under any spelling of the name.
HeaderLinePool ==
  { [name |-> << "A", "c", "c", "e", "p", "t" >>, value |-> << "a", "/", "j" >>],
    [name |-> << "a", "c", "c", "e", "p", "t" >>, value |-> << "t", "/", "p" >>],
    [name |-> << "A", "C", "C", "E", "P", "T", "-", "E", "N", "C", "O", "D", "I", "N", "G" >>, value |-> << "g", "z", "i", "p" >>],
    [name |-> << "A", "c", "c", "e", "p", "t", "-", "L", "a", "n", "g", "u", "a", "g", "e" >>, value |-> << "e", "n" >>],
    [name |-> << "c", "o", "n", "t", "e", "n", "t", "-", "t", "y", "p", "e" >>, value |-> << "a", "/", "j" >>],
    [name |-> << "C", "o", "n", "t", "e", "n", "t", "-", "L", "e", "n", "g", "t", "h" >>, value |-> << "5" >>],
    [name |-> << "X", "-", "V", "u", "l", "n", "e", "r", "s", "-", "T", "o", "k", "e", "n" >>, value |-> << "a", "b", "c" >>],
    [name |-> << "x", "-", "v", "u", "l", "n", "e", "r", "s", "-", "t", "o", "k", "e", "n" >>, value |-> << "d", "e", "f" >>],
    [name |-> << "X", "-", "V", "U", "L", "N", "E", "R", "S", "-", "A" >>, value |-> << "1" >>],
    [name |-> << "X", "-", "V", "u", "l", "n", "e", "r", "s", "x" >>, value |-> << "n", "o" >>],
    [name |-> << "U", "s", "e", "r", "-", "A", "g", "e", "n", "t" >>, value |-> << "c", "u", "r", "l" >>],
    [name |-> << "u", "s", "e", "r", "-", "a", "g", "e", "n", "t" >>, value |-> << "e", "v", "i", "l" >>],
    [name |-> << "A", "u", "t", "h", "o", "r", "i", "z", "a", "t", "i", "o", "n" >>, value |-> << "B", "e", "a", "r", "e", "r", " ", "s" >>],
    [name |-> << "C", "o", "o", "k", "i", "e" >>, value |-> << "s", "i", "d", "=", "1" >>],
    [name |-> << "X", "-", "A", "p", "i", "-", "K", "e", "y" >>, value |-> << "K", "2" >>],
    [name |-> << "x", "-", "a", "p", "i", "-", "k", "e", "y" >>, value |-> << "K", "1" >>],
    [name |-> << "X", "-", "F", "o", "r", "w", "a", "r", "d", "e", "d", "-", "F", "o", "r" >>, value |-> << "1", ".", "2", ".", "3", ".", "4" >>],
    [name |-> << "X", "-", "R", "e", "a", "l", "-", "I", "p" >>, value |-> << "1", ".", "2", ".", "3", ".", "4" >>],
    [name |-> << "C", "o", "n", "n", "e", "c", "t", "i", "o", "n" >>, value |-> << "c", "l", "o", "s", "e" >>],
    [name |-> << "K", "e", "e", "p", "-", "A", "l", "i", "v", "e" >>, value |-> << "5" >>],
    [name |-> << "T", "E" >>, value |-> << "g", "z", "i", "p" >>],
    [name |-> << "T", "r", "a", "i", "l", "e", "r" >>, value |-> << "X" >>],
    [name |-> << "T", "r", "a", "n", "s", "f", "e", "r", "-", "E", "n", "c", "o", "d", "i", "n", "g" >>, value |-> << "c", "h", "u", "n", "k", "e", "d" >>],
    [name |-> << "U", "p", "g", "r", "a", "d", "e" >>, value |-> << "h", "2", "c" >>],
    [name |-> << "P", "r", "o", "x", "y", "-", "A", "u", "t", "h", "e", "n", "t", "i", "c", "a", "t", "e" >>, value |-> << "B" >>],
    [name |-> << "P", "r", "o", "x", "y", "-", "A", "u", "t", "h", "o", "r", "i", "z", "a", "t", "i", "o", "n" >>, value |-> << "B" >>],
    [name |-> << "X", "-", "C", "u", "s", "t", "o", "m", "-", "H", "e", "a", "d", "e", "r" >>, value |-> << "x" >>] }

MethodGet == << "G", "E", "T" >>
MethodPost == << "P", "O", "S", "T" >>

XApiKeyLines ==
  { <<>>,
    << [name |-> hXApiKey, value |-> K2] >>,
    << [name |-> ToLower(hXApiKey), value |-> Kodd] >>,
    << [name |-> hXApiKey, value |-> <<>>], [name |-> hXApiKey, value |-> K2] >> }

Request(m, p, q, l) == [Method |-> m, Path |-> p, RawQuery |-> q, Lines |-> l]

\* Requests that vary the path and the query, without a credential header or
\* with one that needs escaping.
URLKeyLines == { <<>>, << [name |-> ToLower(hXApiKey), value |-> Kodd] >> }

URLRequests ==
  { Request(MethodGet, p, q, l) : p \in PathPool, q \in RawQueryPool, l \in URLKeyLines }

\* Requests that vary the headers.
HeaderRequests ==
  { Request(MethodGet, CHOOSE p \in PathPool : TRUE, <<>>, l) :
      l \in SeqsUpTo(HeaderLinePool, MaxHeaderLines) }

\* Requests of the whole-request specification.
Requests ==
  { Request(m, << "/", "a", "p", "i", "/", "v", "3", "/", "s" >>, q, l) :
      m \in { MethodGet, MethodPost },
      q \in { <<>>, << "q", "=", "1", "&", "a", "p", "i", "K", "e", "y", "=", "x" >> },
      l \in XApiKeyLines \cup
            { << [name |-> hAccept, value |-> << "a" >>],
                 [name |-> << "C", "o", "o", "k", "i", "e" >>, value |-> << "c" >>] >> } }

(***************************************************************************)
(* Initial states                                                          *)
(***************************************************************************)

NoRequest == [Method |-> <<>>, Path |-> <<>>, RawQuery |-> <<>>, Lines |-> <<>>]
NoProxyRequest == [Method |-> <<>>, Path |-> <<>>, Query |-> EmptyMap, Header |-> EmptyMap]
NoOutbound == [sent |-> FALSE, Method |-> <<>>, URL |-> <<>>, Header |-> EmptyMap]
NoResponse == [StatusCode |-> 0, Header |-> EmptyMap, Body |-> <<>>]
NoForward == [state |-> "none", err |-> <<>>, resp |-> NoResponse]
NoClient == [status |-> 0, error |-> <<>>, header |-> EmptyMap, body |-> <<>>]
NoService == [made |-> FALSE, ok |-> FALSE, baseURL |-> NoURL]

\* c.Response() before anything is written: the header map of the response
\* writer, and whether the status line and the headers have been sent.
NoEchoResponse == [header |-> EmptyMap, committed |-> FALSE]

\* Requests served at the same time, each by its own call of Handle.
MaxConcurrent == 2
Handlers == 1..MaxConcurrent

\* The locals of one call of Handle and of the Forward it calls: u is the
\* copy of the base URL made by buildUpstreamURL.
NoHandle ==
  [ pc |-> "idle", req |-> NoRequest, pr |-> NoProxyRequest, apiKey |-> <<>>, u |-> NoURL,
    out |-> NoOutbound, upResp |-> NoResponse, client |-> NoClient ]

\* One call of the handler MetricsMiddleware returns, before it is entered:
\* the method and path of its request, c.Response().Status and whether the
\* response is committed, what next(c) did ("nil", "http" for an
\* *echo.HTTPError with its code, "panic"), and the status the client received.
NoMetricsCall ==
  [ pc |-> "out", Method |-> <<>>, Path |-> <<>>, Status |-> 0, committed |-> FALSE,
    err |-> "none", code |-> 0, delivered |-> 0 ]

\* What Load returned for the command line cli: nothing yet, or an error and
\* no configuration, or a configuration.
NilConfig == [ nil |-> TRUE ]
NotLoaded == [ called |-> FALSE, cli |-> NilConfig, err |-> FALSE, cfg |-> NilConfig ]

\* req.Context() before its cancellation signal fired.  Once it fires, "at"
\* keeps the position of the request at that moment and "snap" what the client
\* had been sent by then.
LiveContext == [canceled |-> FALSE, at |-> "never", snap |-> NoClient]

RequestInit ==
  /\ pc = "idle"
  /\ req = NoRequest
  /\ pr = NoProxyRequest
  /\ apiKey = <<>>
  /\ out = NoOutbound
  /\ upstreamCalls = 0
  /\ upResp = NoResponse
  /\ fwd = NoForward
  /\ client = NoClient
  /\ bodyOpen = FALSE
  /\ log = <<>>
  /\ ret = "none"
  /\ closes = 0
  /\ ctx = LiveContext
  /\ conc = [ i \in Handlers |-> NoHandle ]
  /\ mw = "none"
  /\ res = NoEchoResponse
  /\ metrics = newMetrics(cfg)
  /\ mreq = [ i \in Handlers |-> NoMetricsCall ]
  /\ loaded = NotLoaded

\* Startup: nothing validated, nothing constructed.
InitStartup ==
  /\ cfg \in ConfigPool
  /\ validated = "unset"
  /\ svc = NoService
  /\ RequestInit

\* The running server: the state main reaches once Load and NewProxyService
\* have both succeeded.
Init ==
  /\ cfg \in RunningConfigs
  /\ validated = "ok"
  /\ svc = [made |-> TRUE, ok |-> TRUE, baseURL |-> NewProxyService(cfg).baseURL]
  /\ RequestInit

\* The running server under its default base URL, with and without a shared
\* key.
InitCanonical ==
  /\ Init
  /\ cfg.BaseURL = << "h", "t", "t", "p", "s", ":", "/", "/" >> \o vulnersCom

(***************************************************************************)
(* Startup actions                                                         *)
(***************************************************************************)

\* Load runs Config.validate on the configuration read.
ConfigValidate ==
  /\ validated = "unset"
  /\ validated' = IF validate(cfg) THEN "ok" ELSE "err"
  /\ UNCHANGED << cfg, svc, pc, req, pr, apiKey, out, upstreamCalls, upResp, fwd, client,
                  bodyOpen, log, ret, closes, ctx, conc, mw, res, metrics, mreq, loaded >>

\* NewProxyService is applied to the configuration.
NewProxyServiceCall ==
  /\ ~svc.made
  /\ svc' = [made |-> TRUE, ok |-> NewProxyService(cfg).ok,
             baseURL |-> NewProxyService(cfg).baseURL]
  /\ UNCHANGED << cfg, validated, pc, req, pr, apiKey, out, upstreamCalls, upResp, fwd, client,
                  bodyOpen, log, ret, closes, ctx, conc, mw, res, metrics, mreq, loaded >>

(***************************************************************************)
(* Handle and Forward                                                      *)
(***************************************************************************)

LogEntry(level, msg, err, path) == [level |-> level, msg |-> msg, err |-> err, path |-> path]

\* Handle writing the status 200 to the client before Forward has returned.
HandleCallWriteFirst(r, sent) ==
  /\ svc.made /\ svc.ok
  /\ pc = "idle"
  /\ \E p \in { [ Method |-> r.Method, Path |-> r.Path, Query |-> ParseQuery(r.RawQuery),
                   Header |-> ReadMIMEHeader(EmptyMap, r.Lines) ] } :
       \E key \in { resolveAPIKey(cfg, p.Header) } :
         /\ req' = sent
         /\ pr' = p
         /\ apiKey' = key
         /\ IF key = <<>>
            THEN /\ fwd' = [state |-> "err", err |-> ErrMissingAPIKey, resp |-> NoResponse]
                 /\ client' = [ client EXCEPT !.status = mapError(ErrMissingAPIKey).status,
                                              !.error = mapError(ErrMissingAPIKey).error ]
                 /\ log' = Append(log, LogEntry("error", "proxy error",
                                                sanitizeError(ErrMissingAPIKey), r.Path))
                 /\ res' = [ res EXCEPT !.committed = TRUE ]
                 /\ pc' = "done"
                 /\ ret' = "nil"
                 /\ UNCHANGED << out, upstreamCalls >>
            ELSE /\ out' = [ sent |-> TRUE, Method |-> p.Method,
                             URL |-> buildUpstreamURL(svc.baseURL, p.Path, p.Query, key),
                             Header |-> filterRequestHeaders(p.Header) ]
                 /\ upstreamCalls' = upstreamCalls + 1
                 /\ log' = Append(log, LogEntry("debug", "forwarding request", <<>>, r.Path))
                 /\ pc' = "upstream"
                 /\ client' = [ client EXCEPT !.status = 200 ]
                 /\ res' = [ res EXCEPT !.committed = TRUE ]
                 /\ UNCHANGED << fwd, ret >>
  /\ UNCHANGED << cfg, validated, svc, upResp, bodyOpen, closes, ctx, conc, metrics,
                  mreq, loaded >>

\* Handle up to the upstream call, entered with the request r (sent is the
\* request as the client sent it): it builds the ProxyRequest and calls
\* Forward, which resolves the credential and either fails with
\* ErrMissingAPIKey (mapError then answers) or builds the outbound request and
\* starts the upstream call.
HandleCall(r, sent) ==
  /\ svc.made /\ svc.ok
  /\ pc = "idle"
  /\ \E p \in { [ Method |-> r.Method, Path |-> r.Path, Query |-> ParseQuery(r.RawQuery),
                   Header |-> ReadMIMEHeader(EmptyMap, r.Lines) ] } :
       \E key \in { resolveAPIKey(cfg, p.Header) } :
         /\ req' = sent
         /\ pr' = p
         /\ apiKey' = key
         /\ IF key = <<>>
            THEN /\ fwd' = [state |-> "err", err |-> ErrMissingAPIKey, resp |-> NoResponse]
                 /\ client' = [ client EXCEPT !.status = mapError(ErrMissingAPIKey).status,
                                              !.error = mapError(ErrMissingAPIKey).error ]
                 /\ log' = Append(log, LogEntry("error", "proxy error",
                                                sanitizeError(ErrMissingAPIKey), r.Path))
                 /\ res' = [ res EXCEPT !.committed = TRUE ]
                 /\ pc' = "done"
                 /\ ret' = "nil"
                 /\ UNCHANGED << out, upstreamCalls >>
            ELSE /\ out' = [ sent |-> TRUE, Method |-> p.Method,
                             URL |-> buildUpstreamURL(svc.baseURL, p.Path, p.Query, key),
                             Header |-> filterRequestHeaders(p.Header) ]
                 /\ upstreamCalls' = upstreamCalls + 1
                 /\ log' = Append(log, LogEntry("debug", "forwarding request", <<>>, r.Path))
                 /\ pc' = "upstream"
                 /\ UNCHANGED << fwd, client, ret, res >>
  /\ UNCHANGED << cfg, validated, svc, upResp, bodyOpen, closes, ctx, conc, metrics,
                  mreq, loaded >>

\* Handle called with the request as the client sent it.
HandleBegin(r) ==
  /\ HandleCall(r, r)
  /\ UNCHANGED mw

\* (*VulnersClient).DoStream and Do: what the transport returns for the
\* outbound request.  http.Client.Do reports every failure as a *url.Error
\* naming the method and the URL called.
urlErrorOp(method) ==
  IF method = <<>> THEN << "G", "e", "t" >>
  ELSE << method[1] >> \o ToLower(SubSeq(method, 2, Len(method)))

urlError(method, url, inner) ==
  << [kind |-> "url", msg |-> urlErrorOp(method) \o << " ", "\"" >> \o url \o << "\"" >>] >>
  \o inner

\* context.Canceled, the error of a request whose context is canceled.
ctxCanceled ==
  << [kind |-> "canceled", msg |-> << "c", "o", "n", "t", "e", "x", "t", " ", "c", "a", "n", "c", "e", "l", "e", "d" >>] >>

\* The inbound cancellation signal fires (the client went away) while the
\* request is not yet finished.
CancelInbound ==
  /\ ~ctx.canceled
  /\ pc # "done"
  /\ ctx' = [canceled |-> TRUE, at |-> pc, snap |-> client]
  /\ UNCHANGED << cfg, validated, svc, pc, req, pr, apiKey, out, upstreamCalls, upResp, fwd,
                  client, bodyOpen, log, ret, closes, conc, mw, res, metrics, mreq,
                  loaded >>

\* Errors the transport reports inside the *url.Error.
TransportErrors ==
  { << [kind |-> "deadline", msg |-> << "c", "o", "n", "t", "e", "x", "t", " ", "d", "e", "a", "d", "l", "i", "n", "e", " ", "e", "x", "c", "e", "e", "d", "e", "d" >>] >>,
    ctxCanceled,
    << [kind |-> "op", msg |-> << "d", "i", "a", "l", " ", "t", "c", "p" >>],
       [kind |-> "dns", msg |-> << "l", "o", "o", "k", "u", "p", " ", "v", "u", "l", "n", "e", "r", "s", ".", "c", "o", "m", ":", " ", "n", "o", " ", "s", "u", "c", "h", " ", "h", "o", "s", "t" >>] >>,
    << [kind |-> "op", msg |-> << "d", "i", "a", "l", " ", "t", "c", "p" >>],
       [kind |-> "dns", msg |-> << "l", "o", "o", "k", "u", "p", " ", "v", "u", "l", "n", "e", "r", "s", ".", "c", "o", "m" >>],
       [kind |-> "deadline", msg |-> << "i", "/", "o", " ", "t", "i", "m", "e", "o", "u", "t" >>] >>,
    << [kind |-> "op", msg |-> << "d", "i", "a", "l", " ", "t", "c", "p", " ", "1", ".", "2", ".", "3", ".", "4", ":", "4", "4", "3" >>],
       [kind |-> "str", msg |-> << "c", "o", "n", "n", "e", "c", "t", ":", " ", "c", "o", "n", "n", "e", "c", "t", "i", "o", "n", " ", "r", "e", "f", "u", "s", "e", "d" >>] >>,
    << [kind |-> "str", msg |-> << "E", "O", "F" >>] >> }

\* A failed upstream call is made once more before the failure is reported.
UpstreamFailRetry(inner) ==
  /\ pc = "upstream"
  /\ IF upstreamCalls = 1
     THEN /\ upstreamCalls' = upstreamCalls + 1
          /\ UNCHANGED << pc, fwd, client, log, ret >>
     ELSE /\ fwd' = [state |-> "err", err |-> inner, resp |-> NoResponse]
          /\ client' = [ client EXCEPT !.status = mapError(inner).status,
                                       !.error = mapError(inner).error ]
          /\ log' = Append(log, LogEntry("error", "proxy error", sanitizeError(inner), req.Path))
          /\ pc' = "done"
          /\ ret' = "nil"
          /\ UNCHANGED upstreamCalls
  /\ metrics' = DoRecord(metrics, out.Method, TRUE, 0)
  /\ UNCHANGED << cfg, validated, svc, req, pr, apiKey, out, upResp, bodyOpen, closes,
                  ctx, conc, mw, res, mreq, loaded >>

\* The upstream call fails (of a request whose context is canceled, with
\* context.Canceled): Do wraps the error, Forward wraps it again, and
\* Handle answers through mapError and returns what c.JSON returned.
UpstreamFail(inner) ==
  /\ pc = "upstream"
  /\ ctx.canceled => inner = ctxCanceled
  /\ LET err == wrapForward(wrapUpstreamRequest(urlError(out.Method, out.URL, inner)))
     IN  /\ fwd' = [state |-> "err", err |-> err, resp |-> NoResponse]
         /\ client' = [ client EXCEPT !.status = mapError(err).status,
                                      !.error = mapError(err).error ]
         /\ log' = Append(log, LogEntry("error", "proxy error", sanitizeError(err), req.Path))
  /\ pc' = "done"
  /\ ret' = "nil"
  /\ res' = [ res EXCEPT !.committed = TRUE ]
  /\ metrics' = DoRecord(metrics, out.Method, TRUE, 0)
  /\ UNCHANGED << cfg, validated, svc, req, pr, apiKey, out, upstreamCalls, upResp,
                  bodyOpen, closes, ctx, conc, mw, mreq, loaded >>

\* Header lines an upstream may answer with; the HTTP client canonicalises the
\* names as the server does.
ResponseLinePool ==
  { [name |-> << "C", "o", "n", "t", "e", "n", "t", "-", "T", "y", "p", "e" >>, value |-> << "a", "/", "j" >>],
    [name |-> << "c", "o", "n", "t", "e", "n", "t", "-", "t", "y", "p", "e" >>, value |-> << "t", "/", "h" >>],
    [name |-> << "C", "o", "n", "t", "e", "n", "t", "-", "L", "e", "n", "g", "t", "h" >>, value |-> << "4", "2" >>],
    [name |-> << "C", "o", "n", "t", "e", "n", "t", "-", "E", "n", "c", "o", "d", "i", "n", "g" >>, value |-> << "g", "z", "i", "p" >>],
    [name |-> << "C", "a", "c", "h", "e", "-", "C", "o", "n", "t", "r", "o", "l" >>, value |-> << "n", "o", "-", "s", "t", "o", "r", "e" >>],
    [name |-> << "C", "a", "c", "h", "e", "-", "C", "o", "n", "t", "r", "o", "l" >>, value |-> << "p", "r", "i", "v", "a", "t", "e" >>],
    [name |-> << "D", "a", "t", "e" >>, value |-> << "M", "o", "n" >>],
    [name |-> << "X", "-", "R", "E", "Q", "U", "E", "S", "T", "-", "I", "D" >>, value |-> << "r", "1" >>],
    [name |-> << "S", "e", "t", "-", "C", "o", "o", "k", "i", "e" >>, value |-> << "s", "e", "s", "s", "i", "o", "n", "=", "a", "b", "c" >>],
    [name |-> << "s", "e", "t", "-", "c", "o", "o", "k", "i", "e" >>, value |-> << "t", "=", "1" >>],
    [name |-> << "X", "-", "I", "n", "t", "e", "r", "n", "a", "l", "-", "D", "e", "b", "u", "g" >>, value |-> << "s", "e", "c", "r", "e", "t" >>],
    [name |-> << "T", "r", "a", "n", "s", "f", "e", "r", "-", "E", "n", "c", "o", "d", "i", "n", "g" >>, value |-> << "c", "h", "u", "n", "k", "e", "d" >>],
    [name |-> << "X", "-", "C", "o", "n", "t", "e", "n", "t", "-", "T", "y", "p", "e", "-", "O", "p", "t", "i", "o", "n", "s" >>, value |-> << "n", "o", "s", "n", "i", "f", "f" >>],
    [name |-> << "S", "e", "r", "v", "e", "r" >>, value |-> << "n", "g", "i", "n", "x" >>] }

MaxRespLines == 2

StatusPool == { 200, 404, 503 }

BodyChunks == { << "b", "1" >>, << "b", "2" >> }

\* The headers Handle adds to the client response, one value at a time.
RECURSIVE AddAll(_, _, _)
AddAll(h, key, vals) ==
  IF vals = <<>> THEN h ELSE AddAll(HeaderAdd(h, key, Head(vals)), key, Tail(vals))

RECURSIVE CopyHeaders(_, _, _)
CopyHeaders(h, src, keys) ==
  IF keys = <<>> THEN h
  ELSE CopyHeaders(AddAll(h, Head(keys), src[Head(keys)]), src, Tail(keys))

\* WriteHeader answering a status of 500 or more with 502.
WriteHeaderMasked(code, h) ==
  /\ res' = [header |-> h, committed |-> TRUE]
  /\ client' = [ client EXCEPT !.header = h,
                               !.status = IF code >= 500 THEN StatusBadGateway ELSE code ]

\* c.Response().WriteHeader(code) once the header map holds h: the status and
\* a snapshot of the header map go to the client and the response is
\* committed.
WriteHeader(code, h) ==
  /\ res' = [header |-> h, committed |-> TRUE]
  /\ client' = [ client EXCEPT !.header = h, !.status = code ]

\* The upstream answers and Do returns the response whatever the state of the
\* inbound context (a request built without it).
UpstreamRespondNoContext(status, lines, body) ==
  /\ pc = "upstream"
  /\ LET raw  == [StatusCode |-> status, Header |-> ReadMIMEHeader(EmptyMap, lines),
                  Body |-> body]
         resp == [ raw EXCEPT !.Header = filterResponseHeaders(raw.Header) ]
     IN  /\ upResp' = raw
         /\ fwd' = [state |-> "resp", err |-> <<>>, resp |-> resp]
         /\ WriteHeader(resp.StatusCode,
                        CopyHeaders(res.header, resp.Header, SortedKeys(DOMAIN resp.Header)))
  /\ bodyOpen' = TRUE
  /\ pc' = "streaming"
  /\ metrics' = DoRecord(metrics, out.Method, FALSE, status)
  /\ UNCHANGED << cfg, validated, svc, req, pr, apiKey, out, upstreamCalls, log, ret,
                  closes, ctx, conc, mw, mreq, loaded >>

\* The upstream answers a request whose context is live: Do returns the
\* response, Forward filters its headers, Handle copies them to the client and
\* writes the status.
UpstreamRespond(status, lines, body) ==
  /\ pc = "upstream"
  /\ ~ctx.canceled
  /\ LET raw  == [StatusCode |-> status, Header |-> ReadMIMEHeader(EmptyMap, lines),
                  Body |-> body]
         resp == [ raw EXCEPT !.Header = filterResponseHeaders(raw.Header) ]
     IN  /\ upResp' = raw
         /\ fwd' = [state |-> "resp", err |-> <<>>, resp |-> resp]
         /\ WriteHeader(resp.StatusCode,
                        CopyHeaders(res.header, resp.Header, SortedKeys(DOMAIN resp.Header)))
  /\ bodyOpen' = TRUE
  /\ pc' = "streaming"
  /\ metrics' = DoRecord(metrics, out.Method, FALSE, status)
  /\ UNCHANGED << cfg, validated, svc, req, pr, apiKey, out, upstreamCalls, log, ret,
                  closes, ctx, conc, mw, mreq, loaded >>

\* io.Copy moves the next chunk of the upstream body to the client.
CopyChunk ==
  /\ pc = "streaming"
  /\ Len(client.body) < Len(fwd.resp.Body)
  /\ client' = [ client EXCEPT !.body = Append(@, fwd.resp.Body[Len(client.body) + 1]) ]
  /\ UNCHANGED << cfg, validated, svc, pc, req, pr, apiKey, out, upstreamCalls, upResp, fwd,
                  bodyOpen, log, ret, closes, ctx, conc, mw, res, metrics, mreq, loaded >>

\* io.Copy returns nil at the end of the body; Handle returns and the deferred
\* Close runs.
CopyDone ==
  /\ pc = "streaming"
  /\ Len(client.body) = Len(fwd.resp.Body)
  /\ bodyOpen' = FALSE
  /\ closes' = closes + 1
  /\ pc' = "done"
  /\ ret' = "nil"
  /\ UNCHANGED << cfg, validated, svc, req, pr, apiKey, out, upstreamCalls, upResp, fwd, client,
                  log, ctx, conc, mw, res, metrics, mreq, loaded >>

\* io.Copy fails and Handle returns without closing the body.
CopyFailNoClose ==
  /\ pc = "streaming"
  /\ Len(client.body) < Len(fwd.resp.Body)
  /\ log' = Append(log, LogEntry("error", "streaming response body",
                                 << "w", "r", "i", "t", "e" >>, req.Path))
  /\ pc' = "done"
  /\ ret' = "nil"
  /\ UNCHANGED << cfg, validated, svc, req, pr, apiKey, out, upstreamCalls, upResp, fwd,
                  client, bodyOpen, closes, ctx, conc, mw, res, metrics, mreq, loaded >>

\* io.Copy fails and Handle answers the failure through the error mapping.
CopyFailReclassify ==
  /\ pc = "streaming"
  /\ Len(client.body) < Len(fwd.resp.Body)
  /\ client' = [ client EXCEPT !.status = StatusBadGateway, !.error = msgReqFailed ]
  /\ log' = Append(log, LogEntry("error", "streaming response body",
                                 << "w", "r", "i", "t", "e" >>, req.Path))
  /\ bodyOpen' = FALSE
  /\ closes' = closes + 1
  /\ pc' = "done"
  /\ ret' = "nil"
  /\ UNCHANGED << cfg, validated, svc, req, pr, apiKey, out, upstreamCalls, upResp, fwd,
                  ctx, conc, mw, res, metrics, mreq, loaded >>

\* io.Copy fails before the end of the body: the failure is logged, Handle
\* returns nil and the deferred Close runs.
CopyFail ==
  /\ pc = "streaming"
  /\ Len(client.body) < Len(fwd.resp.Body)
  /\ log' = Append(log, LogEntry("error", "streaming response body",
                                 << "w", "r", "i", "t", "e", ":", " ", "b", "r", "o", "k", "e", "n", " ", "p", "i", "p", "e" >>, req.Path))
  /\ bodyOpen' = FALSE
  /\ closes' = closes + 1
  /\ pc' = "done"
  /\ ret' = "nil"
  /\ UNCHANGED << cfg, validated, svc, req, pr, apiKey, out, upstreamCalls, upResp, fwd,
                  client, ctx, conc, mw, res, metrics, mreq, loaded >>

\* mapError applied to an error value directly.
MapErrorCall(err) ==
  /\ pc = "idle"
  /\ fwd' = [state |-> "err", err |-> err, resp |-> NoResponse]
  /\ client' = [ client EXCEPT !.status = mapError(err).status,
                               !.error = mapError(err).error ]
  /\ log' = Append(log, LogEntry("error", "proxy error", sanitizeError(err), req.Path))
  /\ pc' = "done"
  /\ ret' = "nil"
  /\ res' = [ res EXCEPT !.committed = TRUE ]
  /\ UNCHANGED << cfg, validated, svc, req, pr, apiKey, out, upstreamCalls, upResp,
                  bodyOpen, closes, ctx, conc, mw, metrics, mreq, loaded >>

\* Nodes of the error values handed to mapError.
ErrNodePool ==
  { [kind |-> "missing", msg |-> << "A", "P", "I", " ", "k", "e", "y", " ", "r", "e", "q", "u", "i", "r", "e", "d", ":", " ", "s", "e", "t", " ", "v", "u", "l", "n", "e", "r", "s", ".", "a", "p", "i", "_", "k", "e", "y", " ", "i", "n", " ", "c", "o", "n", "f", "i", "g", " ", "o", "r", " ", "s", "e", "n", "d", " ", "X", "-", "A", "p", "i", "-", "K", "e", "y", " ", "h", "e", "a", "d", "e", "r" >>],
    [kind |-> "deadline", msg |-> << "c", "o", "n", "t", "e", "x", "t", " ", "d", "e", "a", "d", "l", "i", "n", "e", " ", "e", "x", "c", "e", "e", "d", "e", "d" >>],
    [kind |-> "canceled", msg |-> << "c", "o", "n", "t", "e", "x", "t", " ", "c", "a", "n", "c", "e", "l", "e", "d" >>],
    [kind |-> "dns", msg |-> << "l", "o", "o", "k", "u", "p", " ", "v", "u", "l", "n", "e", "r", "s", ".", "c", "o", "m", ":", " ", "n", "o", " ", "s", "u", "c", "h", " ", "h", "o", "s", "t" >>],
    [kind |-> "dns", msg |-> << "l", "o", "o", "k", "u", "p", " ", "e", "v", "i", "l", ".", "e", "x", "a", "m", "p", "l", "e", " ", "o", "n", " ", "1", "0", ".", "0", ".", "0", ".", "1", ":", "5", "3", ":", " ", "s", "e", "r", "v", "e", "r", " ", "m", "i", "s", "b", "e", "h", "a", "v", "i", "n", "g" >>],
    [kind |-> "url", msg |-> << "G", "e", "t", " ", "\"", "h", "t", "t", "p", "s", ":", "/", "/", "v", "u", "l", "n", "e", "r", "s", ".", "c", "o", "m", "/", "a", "p", "i", "/", "v", "3", "/", "s", "?", "a", "p", "i", "K", "e", "y", "=", "K", "1", "&", "q", "=", "1", "\"" >>],
    [kind |-> "url", msg |-> << "P", "o", "s", "t", " ", "\"", "h", "t", "t", "p", "s", ":", "/", "/", "v", "u", "l", "n", "e", "r", "s", ".", "c", "o", "m", "/", "a", "p", "i", "/", "v", "3", "/", "s", "?", "a", "p", "i", "K", "e", "y", "=", "K", "2", "\"" >>],
    [kind |-> "fmt", msg |-> << "f", "o", "r", "w", "a", "r", "d", " ", "t", "o", " ", "u", "p", "s", "t", "r", "e", "a", "m" >>],
    [kind |-> "op", msg |-> << "d", "i", "a", "l", " ", "t", "c", "p", " ", "1", ".", "2", ".", "3", ".", "4", ":", "4", "4", "3" >>],
    [kind |-> "str", msg |-> << "c", "o", "n", "n", "e", "c", "t", ":", " ", "c", "o", "n", "n", "e", "c", "t", "i", "o", "n", " ", "r", "e", "f", "u", "s", "e", "d" >>] }

ErrPool == SeqsUpTo(ErrNodePool, MaxErrDepth) \ { <<>> }

(***************************************************************************)
(* Specifications                                                          *)
(***************************************************************************)

\* One request through the running server.
Next ==
  \/ \E r \in Requests : HandleBegin(r)
  \/ \E e \in TransportErrors : UpstreamFail(e)
  \/ \E st \in StatusPool, b \in SeqsUpTo(BodyChunks, MaxChunks) :
        UpstreamRespond(st, << [name |-> hContentType, value |-> << "j" >>],
                               [name |-> << "S", "e", "t", "-", "C", "o", "o", "k", "i", "e" >>,
                                value |-> << "s" >>] >>, b)
  \/ CopyChunk
  \/ CopyDone
  \/ CopyFail
  \/ CancelInbound

Spec == Init /\ [][Next]_vars

\* Startup: validation and construction applied to every configuration, and a
\* request served by whatever service was constructed.
NextStartup ==
  \/ ConfigValidate
  \/ NewProxyServiceCall
  \/ \E r \in Requests : HandleBegin(r)

SpecStartup == InitStartup /\ [][NextStartup]_vars

\* Forward applied to requests that vary path, query and credential.
NextURL == \E r \in URLRequests : HandleBegin(r)

SpecURL == Init /\ [][NextURL]_vars

\* Forward applied to requests that vary the headers.
NextReqHeaders == \E r \in HeaderRequests : HandleBegin(r)

SpecReqHeaders == InitCanonical /\ [][NextReqHeaders]_vars

\* The running server with and without metrics (metrics.enabled), under the
\* default base URL.
MetricsConfigs ==
  { [ setDefaults(c) EXCEPT !.MetricsEnabled = e ] :
      c \in { d \in RunningConfigs : d.BaseURL = << "h", "t", "t", "p", "s", ":", "/", "/" >> \o vulnersCom },
      e \in BOOLEAN }

InitMetrics ==
  /\ cfg \in MetricsConfigs
  /\ validated = "ok"
  /\ svc = [made |-> TRUE, ok |-> TRUE, baseURL |-> NewProxyService(cfg).baseURL]
  /\ RequestInit

\* Requests that vary the method: standard ones, one in lower case and one
\* that is not in knownMethods.
MethodPool == { MethodGet, MethodPost, << "g", "e", "t" >>, << "P", "U", "R", "G", "E" >> }

MethodRequests ==
  { Request(mt, << "/", "a", "p", "i", "/", "v", "3", "/", "s" >>, <<>>, l) :
      mt \in MethodPool, l \in { <<>>, << [name |-> hXApiKey, value |-> K2] >> } }

\* Upstream calls that fail or are answered, with and without metrics.
NextUpstreamMetrics ==
  \/ \E r \in MethodRequests : HandleBegin(r)
  \/ \E e \in TransportErrors : UpstreamFail(e)
  \/ \E st \in StatusPool : UpstreamRespond(st, <<>>, <<>>)

SpecUpstreamMetrics == InitMetrics /\ [][NextUpstreamMetrics]_vars

\* Forward receiving upstream responses that vary status and headers.
NextRespHeaders ==
  \/ HandleBegin(Request(MethodGet, CHOOSE p \in PathPool : TRUE, <<>>,
                         << [name |-> hXApiKey, value |-> K2] >>))
  \/ \E st \in StatusPool, l \in SeqsUpTo(ResponseLinePool, MaxRespLines) :
        UpstreamRespond(st, l, << >>)

SpecRespHeaders == InitCanonical /\ [][NextRespHeaders]_vars

\* mapError applied to error values.
NextMapError == \E e \in ErrPool : MapErrorCall(e)

SpecMapError == InitCanonical /\ [][NextMapError]_vars

(***************************************************************************)
(* The middleware chain around Handle                                      *)
(***************************************************************************)

\* var hopByHopHeaders
hopByHopHeaders ==
  { << "C", "o", "n", "n", "e", "c", "t", "i", "o", "n" >>,
    << "K", "e", "e", "p", "-", "A", "l", "i", "v", "e" >>,
    << "P", "r", "o", "x", "y", "-", "A", "u", "t", "h", "e", "n", "t", "i", "c", "a", "t", "e" >>,
    << "P", "r", "o", "x", "y", "-", "A", "u", "t", "h", "o", "r", "i", "z", "a", "t", "i", "o", "n" >>,
    << "T", "E" >>,
    << "T", "r", "a", "i", "l", "e", "r" >>,
    << "T", "r", "a", "n", "s", "f", "e", "r", "-", "E", "n", "c", "o", "d", "i", "n", "g" >>,
    << "U", "p", "g", "r", "a", "d", "e" >> }

hXContentTypeOptions == << "X", "-", "C", "o", "n", "t", "e", "n", "t", "-", "T", "y", "p", "e", "-", "O", "p", "t", "i", "o", "n", "s" >>
nosniff == << "n", "o", "s", "n", "i", "f", "f" >>
hXFrameOptions == << "X", "-", "F", "r", "a", "m", "e", "-", "O", "p", "t", "i", "o", "n", "s" >>
deny == << "D", "E", "N", "Y" >>

\* c.Request().Header.Del(h) for every h of hopByHopHeaders: the lines of the
\* request whose canonical name is the canonical form of one of them go.
StripHopByHop(r) ==
  LET gone == { CanonicalHeaderKey(h) : h \in hopByHopHeaders }
      keep == [ i \in 1..Len(r.Lines) |->
                  IF CanonicalHeaderKey(r.Lines[i].name) \in gone THEN <<>>
                  ELSE << r.Lines[i] >> ]
  IN  [ r EXCEPT !.Lines = Concat(keep, 1, Len(keep)) ]

\* The identifier echomw.RequestID generates for a request that brings none.
generatedRequestID == << "g", "e", "n", "-", "1" >>

\* echomw.RequestID: the X-Request-Id of the request, or a generated one, is
\* set on the response header map before the rest of the chain runs
\* (RequestLogger reads it back from there).
RequestID(r, h) ==
  LET rid == HeaderGet(ReadMIMEHeader(EmptyMap, r.Lines), hXRequestId)
  IN  HeaderSet(h, hXRequestId, IF rid = <<>> THEN generatedRequestID ELSE rid)

\* A request enters the chain: RequestID sets the response's X-Request-Id and
\* SecurityHeaders strips the hop-by-hop headers from the request; Handle is
\* next.
ChainEnter(r) ==
  /\ svc.made /\ svc.ok
  /\ pc = "idle"
  /\ mw = "none"
  /\ mw' = "inside"
  /\ req' = r
  /\ res' = [ res EXCEPT !.header = RequestID(r, res.header) ]
  /\ UNCHANGED << cfg, validated, svc, pc, pr, apiKey, out, upstreamCalls, upResp, fwd, client,
                  bodyOpen, log, ret, closes, ctx, conc, metrics, mreq, loaded >>

\* next(c) in SecurityHeaders: Handle runs with the stripped request.
ChainHandle ==
  /\ mw = "inside"
  /\ HandleCall(StripHopByHop(req), req)
  /\ UNCHANGED mw

\* SecurityHeaders after next(c) returned: the two headers are set on the
\* response header map.  What the client was sent is the snapshot taken by
\* WriteHeader; a header set on the map of a committed response is not sent.
ChainLeave ==
  /\ mw = "inside"
  /\ pc = "done"
  /\ mw' = "after"
  /\ \E h \in { HeaderSet(HeaderSet(res.header, hXContentTypeOptions, nosniff),
                          hXFrameOptions, deny) } :
       /\ res' = [ res EXCEPT !.header = h ]
       /\ client' = IF res.committed THEN client ELSE [ client EXCEPT !.header = h ]
  /\ UNCHANGED << cfg, validated, svc, pc, req, pr, apiKey, out, upstreamCalls, upResp, fwd,
                  bodyOpen, log, ret, closes, ctx, conc, metrics, mreq, loaded >>

\* Requests entering the chain: with and without a request id of their own,
\* with and without hop-by-hop headers.
ChainRequests ==
  { Request(MethodGet, << "/", "a", "p", "i", "/", "v", "3", "/", "s" >>, << "q", "=", "1" >>, l) :
      l \in { <<>>,
              << [name |-> hXApiKey, value |-> K2] >>,
              << [name |-> hXApiKey, value |-> K2],
                 [name |-> << "x", "-", "r", "e", "q", "u", "e", "s", "t", "-", "i", "d" >>,
                  value |-> << "c", "7" >>] >>,
              << [name |-> hXApiKey, value |-> K2],
                 [name |-> << "C", "o", "n", "n", "e", "c", "t", "i", "o", "n" >>,
                  value |-> << "c", "l", "o", "s", "e" >>] >>,
              << [name |-> << "T", "E" >>, value |-> << "g", "z", "i", "p" >>],
                 [name |-> hAccept, value |-> << "a" >>] >> } }

\* Header lines of the upstream answers relayed through the chain.
ChainResponseLines ==
  { [name |-> hContentType, value |-> << "a", "/", "j" >>],
    [name |-> hXRequestId, value |-> << "r", "1" >>],
    [name |-> hXContentTypeOptions, value |-> nosniff],
    [name |-> << "S", "e", "t", "-", "C", "o", "o", "k", "i", "e" >>, value |-> << "s" >>] }

\* One request through the middleware chain and Handle.
NextServe ==
  \/ \E r \in ChainRequests : ChainEnter(r)
  \/ ChainHandle
  \/ \E e \in { ctxCanceled, << [kind |-> "str", msg |-> << "E", "O", "F" >>] >> } : UpstreamFail(e)
  \/ \E st \in StatusPool, l \in SeqsUpTo(ChainResponseLines, MaxRespLines),
        b \in SeqsUpTo(BodyChunks, MaxChunks) : UpstreamRespond(st, l, b)
  \/ CopyChunk
  \/ CopyDone
  \/ CopyFail
  \/ ChainLeave

SpecServe == InitCanonical /\ [][NextServe]_vars

(***************************************************************************)
(* Concurrent requests                                                     *)
(***************************************************************************)

\* Requests that differ in method, path, query, headers and credential.
ConcurrentRequests ==
  { Request(MethodGet, << "/", "a", "p", "i", "/", "v", "3", "/", "s" >>, << "q", "=", "1" >>,
            << [name |-> hXApiKey, value |-> K1], [name |-> hAccept, value |-> << "a" >>] >>),
    Request(MethodPost, << "/", "a", "p", "i", "/", "v", "4", "/", "t" >>, << "r", "=", "2" >>,
            << [name |-> hXApiKey, value |-> K2],
               [name |-> << "X", "-", "V", "u", "l", "n", "e", "r", "s", "-", "T", "o", "k", "e", "n" >>,
                value |-> << "a", "b", "c" >>] >>),
    Request(MethodGet, << "/", "a", "p", "i", "/", "v", "3", "/", "n" >>, <<>>, <<>>) }

\* Handle of request i builds its ProxyRequest and Forward resolves the
\* credential from the shared configuration: ErrMissingAPIKey is answered
\* through mapError, otherwise buildUpstreamURL is entered.
ConcBegin(i, r) ==
  /\ conc[i].pc = "idle"
  /\ \E p \in { [ Method |-> r.Method, Path |-> r.Path, Query |-> ParseQuery(r.RawQuery),
                   Header |-> ReadMIMEHeader(EmptyMap, r.Lines) ] } :
       \E key \in { resolveAPIKey(cfg, p.Header) } :
         conc' = [ conc EXCEPT ![i] =
                     IF key = <<>>
                     THEN [ @ EXCEPT !.req = r, !.pr = p, !.pc = "done",
                                     !.client = [ NoClient EXCEPT
                                                    !.status = mapError(ErrMissingAPIKey).status,
                                                    !.error = mapError(ErrMissingAPIKey).error ] ]
                     ELSE [ @ EXCEPT !.req = r, !.pr = p, !.apiKey = key, !.pc = "copy" ] ]
  /\ UNCHANGED << cfg, validated, svc, pc, req, pr, apiKey, out, upstreamCalls, upResp, fwd,
                  client, bodyOpen, log, ret, closes, ctx, mw, res, metrics, mreq,
                  loaded >>

\* u := *s.baseURL with the copy left out: the path and the query are written
\* into the shared base URL.
ConcCopyBaseInPlace(i) ==
  /\ conc[i].pc = "copy"
  /\ svc' = [ svc EXCEPT !.baseURL.Path = conc[i].pr.Path ]
  /\ conc' = [ conc EXCEPT ![i].u = svc.baseURL, ![i].pc = "send" ]
  /\ UNCHANGED << cfg, validated, pc, req, pr, apiKey, out, upstreamCalls, upResp, fwd,
                  client, bodyOpen, log, ret, closes, ctx, mw, res, metrics, mreq,
                  loaded >>

\* u := *s.baseURL : request i copies the shared base URL.
ConcCopyBase(i) ==
  /\ conc[i].pc = "copy"
  /\ conc' = [ conc EXCEPT ![i].u = svc.baseURL, ![i].pc = "send" ]
  /\ UNCHANGED << cfg, validated, svc, pc, req, pr, apiKey, out, upstreamCalls, upResp, fwd,
                  client, bodyOpen, log, ret, closes, ctx, mw, res, metrics, mreq,
                  loaded >>

\* The rest of buildUpstreamURL on the copy, filterRequestHeaders, and the
\* start of the upstream call of request i.
ConcSend(i) ==
  /\ conc[i].pc = "send"
  /\ conc' = [ conc EXCEPT
                 ![i].out = [ sent |-> TRUE, Method |-> conc[i].pr.Method,
                              URL |-> buildUpstreamURL(conc[i].u, conc[i].pr.Path,
                                                       conc[i].pr.Query, conc[i].apiKey),
                              Header |-> filterRequestHeaders(conc[i].pr.Header) ],
                 ![i].pc = "upstream" ]
  /\ UNCHANGED << cfg, validated, svc, pc, req, pr, apiKey, out, upstreamCalls, upResp, fwd,
                  client, bodyOpen, log, ret, closes, ctx, mw, res, metrics, mreq,
                  loaded >>

\* The upstream call of request i fails and mapError answers its client.
ConcFail(i, inner) ==
  /\ conc[i].pc = "upstream"
  /\ \E err \in { wrapForward(wrapUpstreamRequest(
                    urlError(conc[i].out.Method, conc[i].out.URL, inner))) } :
       conc' = [ conc EXCEPT ![i].client = [ NoClient EXCEPT !.status = mapError(err).status,
                                                             !.error = mapError(err).error ],
                             ![i].pc = "done" ]
  /\ metrics' = DoRecord(metrics, conc[i].out.Method, TRUE, 0)
  /\ UNCHANGED << cfg, validated, svc, pc, req, pr, apiKey, out, upstreamCalls, upResp, fwd,
                  client, bodyOpen, log, ret, closes, ctx, mw, res, mreq, loaded >>

\* The upstream answers the call of request i and Handle relays the answer.
ConcRespond(i, status, lines, body) ==
  /\ conc[i].pc = "upstream"
  /\ \E raw \in { [StatusCode |-> status, Header |-> ReadMIMEHeader(EmptyMap, lines),
                   Body |-> body] } :
       \E h \in { filterResponseHeaders(raw.Header) } :
         conc' = [ conc EXCEPT
                     ![i].upResp = raw,
                     ![i].client = [ status |-> raw.StatusCode, error |-> <<>>,
                                     header |-> CopyHeaders(EmptyMap, h, SortedKeys(DOMAIN h)),
                                     body |-> raw.Body ],
                     ![i].pc = "done" ]
  /\ metrics' = DoRecord(metrics, conc[i].out.Method, FALSE, status)
  /\ UNCHANGED << cfg, validated, svc, pc, req, pr, apiKey, out, upstreamCalls, upResp, fwd,
                  client, bodyOpen, log, ret, closes, ctx, mw, res, mreq, loaded >>

\* The answers an upstream gives to concurrent calls.
ConcurrentAnswers ==
  { [ status |-> 200, lines |-> << [name |-> hContentType, value |-> << "j" >>] >>,
      body |-> << << "b", "1" >> >> ],
    [ status |-> 503, lines |-> << [name |-> << "S", "e", "t", "-", "C", "o", "o", "k", "i", "e" >>,
                                   value |-> << "s" >>] >>,
      body |-> <<>> ] }

NextConcurrent ==
  \E i \in Handlers :
    \/ \E r \in ConcurrentRequests : ConcBegin(i, r)
    \/ ConcCopyBase(i)
    \/ ConcSend(i)
    \/ ConcFail(i, ctxCanceled)
    \/ \E a \in ConcurrentAnswers : ConcRespond(i, a.status, a.lines, a.body)

SpecConcurrent == InitCanonical /\ [][NextConcurrent]_vars

(***************************************************************************)
(* Routing: e.ServeHTTP hands a request to the handler the router finds    *)
(***************************************************************************)

\* Requests to the routes and off them, with methods e.Any registers and
\* one it does not.
RouteRequests ==
  { Request(mt, p, <<>>, l) :
      mt \in { MethodGet, MethodPost, << "D", "E", "L", "E", "T", "E" >>, << "M", "K", "C", "O", "L" >> },
      p \in { << "/", "a", "p", "i", "/", "v", "3", "/", "s" >>, << "/", "a", "p", "i", "/", "v", "4", "/", "a", "/", "b" >>, << "/", "a", "p", "i", "/", "v", "3" >>, << "/", "a", "p", "i", "/", "v", "5", "/", "x" >>, << "/", "h", "e", "a", "l", "t", "h", "z" >>,
              << "/", "p", "r", "o", "x", "y", "/", "s", "t", "a", "t", "u", "s" >>, << "/", "m", "e", "t", "r", "i", "c", "s" >>, << "/" >>, << "/", "n", "o", "p", "e" >> },
      l \in { <<>>, << [name |-> hXApiKey, value |-> K2] >> } }

\* e.ServeHTTP: Handle for a request routed to it; Healthz, Status and the
\* metrics handler answer 200; the router answers a path without a route with
\* 404 and a path whose routes have other methods with 405.
ServeHTTP(r) ==
  \/ /\ FindRoute(cfg, r.Method, r.Path) = "proxy"
     /\ HandleCall(r, r)
     /\ UNCHANGED mw
  \/ /\ FindRoute(cfg, r.Method, r.Path) # "proxy"
     /\ pc = "idle"
     /\ req' = r
     /\ client' = [ client EXCEPT !.status =
                      CASE FindRoute(cfg, r.Method, r.Path) = "notfound" -> 404
                        [] FindRoute(cfg, r.Method, r.Path) = "notallowed" -> 405
                        [] OTHER -> 200 ]
     /\ res' = [ res EXCEPT !.committed = TRUE ]
     /\ pc' = "done"
     /\ UNCHANGED << cfg, validated, svc, pr, apiKey, out, upstreamCalls, upResp, fwd,
                     bodyOpen, log, ret, closes, ctx, conc, mw, metrics, mreq, loaded >>

NextRoutes ==
  \/ \E r \in RouteRequests : ServeHTTP(r)
  \/ UpstreamFail(ctxCanceled)
  \/ \E st \in StatusPool : UpstreamRespond(st, <<>>, <<>>)

SpecRoutes == InitMetrics /\ [][NextRoutes]_vars

(***************************************************************************)
(* internal/config/config.go: Load                                         *)
(***************************************************************************)

\* (*Config).applyCLI
applyCLI(c, cli) ==
  [ c EXCEPT !.Host = IF cli.Host # <<>> THEN cli.Host ELSE @,
             !.Port = IF cli.Port # 0 THEN cli.Port ELSE @,
             !.APIKey = IF cli.APIKey # <<>> THEN cli.APIKey ELSE @,
             !.LogLevel = IF cli.LogLevel # <<>> THEN cli.LogLevel ELSE @ ]

\* The command lines tried: no override, and overrides of host, port, key and
\* log level by good and by bad values.
CLIPool ==
  { [Host |-> <<>>, Port |-> 0, APIKey |-> <<>>, LogLevel |-> <<>>],
    [Host |-> << "h" >>, Port |-> 443, APIKey |-> K1, LogLevel |-> << "W", "A", "R", "N" >>],
    [Host |-> <<>>, Port |-> 70000, APIKey |-> <<>>, LogLevel |-> <<>>],
    [Host |-> <<>>, Port |-> 0, APIKey |-> placeholderKey, LogLevel |-> << "l", "o", "u", "d" >>] }

\* The contents of the configuration file, as toml.Unmarshal decodes them.
FileConfigs ==
  { [ DefaultConfig EXCEPT !.BaseURL = b, !.APIKey = k, !.Port = p, !.BodyMaxBytes = n,
                           !.TimeoutSeconds = t, !.IdleConnections = t, !.LogLevel = l,
                           !.LogFormat = f ] :
      b \in { <<>>, << "h", "t", "t", "p", "s", ":", "/", "/", "v", "u", "l", "n", "e", "r", "s", ".", "c", "o", "m" >>, << "H", "T", "T", "P", "S", ":", "/", "/", "v", "u", "l", "n", "e", "r", "s", ".", "c", "o", "m" >>, << "h", "t", "t", "p", ":", "/", "/", "v", "u", "l", "n", "e", "r", "s", ".", "c", "o", "m" >> },
      k \in { <<>>, placeholderKey },
      p \in { 0 - 1, 0, 1, 65535, 65536 },
      n \in { 0 - 1, 0, 1 },
      t \in { 0 - 1, 0, 1 },
      l \in { <<>>, << "D", "E", "B", "U", "G" >>, << "t", "r", "a", "c", "e" >> },
      f \in { <<>>, << "T", "e", "x", "t" >>, << "x", "m", "l" >> } } \cup
  { [ DefaultConfig EXCEPT !.BaseURL = << "h", "t", "t", "p", "s", ":", "/", "/", "v", "u", "l", "n", "e", "r", "s", ".", "c", "o", "m" >>, !.TimeoutSeconds = t,
                           !.IdleConnections = i ] : t \in { 0 - 1, 0, 1 }, i \in { 0 - 1, 0, 1 } }

\* Startup before Load: the file holds cfg.
InitLoad ==
  /\ cfg \in FileConfigs
  /\ validated = "unset"
  /\ svc = NoService
  /\ RequestInit

\* Load that returns the validated configuration without setDefaults.
LoadNoDefaults(cli, file) ==
  /\ ~loaded.called
  /\ loaded' = IF file = "ok" /\ validate(applyCLI(cfg, cli))
               THEN [called |-> TRUE, cli |-> cli, err |-> FALSE, cfg |-> applyCLI(cfg, cli)]
               ELSE [called |-> TRUE, cli |-> cli, err |-> TRUE, cfg |-> NilConfig]
  /\ UNCHANGED << cfg, validated, svc, pc, req, pr, apiKey, out, upstreamCalls, upResp, fwd,
                  client, bodyOpen, log, ret, closes, ctx, conc, mw, res, metrics, mreq >>

\* Load: no file found, a file that cannot be read or parsed ("none",
\* "unreadable", "malformed") end it with an error; otherwise the CLI
\* overrides are applied, validate decides, and setDefaults fills the zero
\* values of the configuration returned.
Load(cli, file) ==
  /\ ~loaded.called
  /\ loaded' = IF file = "ok" /\ validate(applyCLI(cfg, cli))
               THEN [called |-> TRUE, cli |-> cli, err |-> FALSE, cfg |-> setDefaults(applyCLI(cfg, cli))]
               ELSE [called |-> TRUE, cli |-> cli, err |-> TRUE, cfg |-> NilConfig]
  /\ UNCHANGED << cfg, validated, svc, pc, req, pr, apiKey, out, upstreamCalls, upResp, fwd,
                  client, bodyOpen, log, ret, closes, ctx, conc, mw, res, metrics, mreq >>

NextLoad ==
  \E cli \in CLIPool, file \in { "none", "unreadable", "malformed", "ok" } : Load(cli, file)

SpecLoad == InitLoad /\ [][NextLoad]_vars

(***************************************************************************)
(* internal/middleware/metrics.go: MetricsMiddleware, entered by requests  *)
(* served at the same time.  Each statement that touches a collector is a  *)
(* step of its own.                                                        *)
(***************************************************************************)

\* The running server with metrics enabled: newEcho installs the middleware.
InitMiddleware ==
  /\ InitMetrics
  /\ cfg.MetricsEnabled

\* Requests to the routes and off them, one with a method e.Any does not
\* register.
MiddlewareRequests ==
  { Request(MethodGet, << "/", "a", "p", "i", "/", "v", "3", "/", "s" >>, <<>>, <<>>),
    Request(<< "X", "Y", "Z", "Z", "Y" >>, << "/", "a", "p", "i", "/", "v", "3", "/", "s" >>, <<>>, <<>>),
    Request(MethodGet, << "/", "n", "o", "p", "e" >>, <<>>, <<>>),
    Request(MethodGet, << "/", "h", "e", "a", "l", "t", "h", "z" >>, <<>>, <<>>),
    Request(MethodGet, << "/", "m", "e", "t", "r", "i", "c", "s" >>, <<>>, <<>>) }

\* The statuses Handle is taken to write in this part: a relayed one and one
\* of mapError.
HandleStatuses == { 200, StatusBadGateway }

\* What next(c) does for a request: BodyLimit refuses it with 413 before any
\* handler runs; otherwise the handler the router found writes a status and
\* returns nil, or returns the *echo.HTTPError of the router (404, 405);
\* Handle may also panic (WriteHeader panics on a status outside 100..999).
NextOutcomes(c, method, path) ==
  { [kind |-> "http", status |-> 413] } \cup
  ( CASE FindRoute(c, method, path) = "proxy" ->
           { [kind |-> "nil", status |-> s] : s \in HandleStatuses } \cup
           { [kind |-> "panic", status |-> 0] }
      [] FindRoute(c, method, path) \in { "healthz", "status", "metrics" } ->
           { [kind |-> "nil", status |-> 200] }
      [] FindRoute(c, method, path) = "notfound" -> { [kind |-> "http", status |-> 404] }
      [] FindRoute(c, method, path) = "notallowed" -> { [kind |-> "http", status |-> 405] } )

\* m.RequestsInFlight.Inc() on entry; echo has reset the response to status
\* 200, not committed.
MetricsEnter(i, r) ==
  /\ metrics.on
  /\ mreq[i].pc = "out"
  /\ metrics' = [ metrics EXCEPT !.RequestsInFlight = @ + 1 ]
  /\ mreq' = [ mreq EXCEPT ![i] = [ NoMetricsCall EXCEPT !.pc = "next", !.Method = r.Method,
                                                         !.Path = r.Path, !.Status = 200 ] ]
  /\ UNCHANGED << cfg, validated, svc, pc, req, pr, apiKey, out, upstreamCalls, upResp, fwd,
                  client, bodyOpen, log, ret, closes, ctx, conc, mw, res, loaded >>

\* err := next(c)
MetricsNext(i, o) ==
  /\ mreq[i].pc = "next"
  /\ o \in NextOutcomes(cfg, mreq[i].Method, mreq[i].Path)
  /\ mreq' = [ mreq EXCEPT ![i] =
                 IF o.kind = "nil"
                 THEN [ @ EXCEPT !.pc = "returned", !.err = "nil", !.Status = o.status,
                                 !.committed = TRUE, !.delivered = o.status ]
                 ELSE IF o.kind = "http"
                 THEN [ @ EXCEPT !.pc = "returned", !.err = "http", !.code = o.status ]
                 ELSE [ @ EXCEPT !.pc = "panicking", !.err = "panic" ] ]
  /\ UNCHANGED << cfg, validated, svc, pc, req, pr, apiKey, out, upstreamCalls, upResp, fwd,
                  client, bodyOpen, log, ret, closes, ctx, conc, mw, res, metrics,
                  loaded >>

\* The status resolved from the response and the error, and the two
\* recordings under the labels (method, status, path).
MetricsRecord(i) ==
  /\ mreq[i].pc = "returned"
  /\ \E labels \in { << NormalizeMethod(mreq[i].Method),
                        Itoa(IF mreq[i].err = "http" THEN mreq[i].code ELSE mreq[i].Status),
                        NormalizePath(mreq[i].Path) >> } :
       metrics' = [ metrics EXCEPT !.RequestsTotal = WithLabelValuesInc(@, labels),
                                   !.RequestDuration = WithLabelValuesInc(@, labels) ]
  /\ mreq' = [ mreq EXCEPT ![i].pc = "recorded" ]
  /\ UNCHANGED << cfg, validated, svc, pc, req, pr, apiKey, out, upstreamCalls, upResp, fwd,
                  client, bodyOpen, log, ret, closes, ctx, conc, mw, res, loaded >>

\* MetricsMiddleware without the defer: the gauge is decremented before the
\* return statement only.
MetricsExitNoDefer(i) ==
  /\ mreq[i].pc \in { "recorded", "panicking" }
  /\ metrics' = [ metrics EXCEPT !.RequestsInFlight =
                                    IF mreq[i].pc = "recorded" THEN @ - 1 ELSE @ ]
  /\ mreq' = [ mreq EXCEPT ![i].pc = "left",
                           ![i].delivered = IF mreq[i].committed THEN mreq[i].Status
                                            ELSE IF mreq[i].err = "http" THEN mreq[i].code
                                            ELSE 500 ]
  /\ UNCHANGED << cfg, validated, svc, pc, req, pr, apiKey, out, upstreamCalls, upResp, fwd,
                  client, bodyOpen, log, ret, closes, ctx, conc, mw, res, loaded >>

\* The middleware is left, by return err or by the panic of next(c): the
\* deferred m.RequestsInFlight.Dec() runs.  Outside it the error handler of
\* echo answers an uncommitted response with the code of the HTTPError, and
\* Recover turns a panic into an error answered with 500.
MetricsExit(i) ==
  /\ mreq[i].pc \in { "recorded", "panicking" }
  /\ metrics' = [ metrics EXCEPT !.RequestsInFlight = @ - 1 ]
  /\ mreq' = [ mreq EXCEPT ![i].pc = "left",
                           ![i].delivered = IF mreq[i].committed THEN mreq[i].Status
                                            ELSE IF mreq[i].err = "http" THEN mreq[i].code
                                            ELSE 500 ]
  /\ UNCHANGED << cfg, validated, svc, pc, req, pr, apiKey, out, upstreamCalls, upResp, fwd,
                  client, bodyOpen, log, ret, closes, ctx, conc, mw, res, loaded >>

NextMiddleware ==
  \E i \in Handlers :
    \/ \E r \in MiddlewareRequests : MetricsEnter(i, r)
    \/ \E o \in { [kind |-> k, status |-> s] :
                    k \in { "nil", "http", "panic" },
                    s \in HandleStatuses \cup { 0, 404, 405, 413 } } : MetricsNext(i, o)
    \/ MetricsRecord(i)
    \/ MetricsExit(i)

SpecMiddleware == InitMiddleware /\ [][NextMiddleware]_vars

\* Requests that vary the method and the path seen by MetricsMiddleware:
\* the seven known methods, others, and paths at, under and beside the known
\* prefixes.
LabelRequests ==
  { Request(mt, p, <<>>, <<>>) :
      mt \in knownMethods \cup { << "g", "e", "t" >>, << "P", "o", "s", "t" >>, << "T", "R", "A", "C", "E" >>, << "X", "Y", "Z", "Z", "Y" >> },
      p \in { << "/", "a", "p", "i", "/", "v", "3", "/", "s" >>, << "/", "a", "p", "i", "/", "v", "3" >>, << "/", "a", "p", "i", "/", "v", "3", "x" >>, << "/", "a", "p", "i", "/", "v", "4", "?", "x" >>, << "/", "A", "P", "I", "/", "V", "4", "/", "s" >>,
              << "/", "h", "e", "a", "l", "t", "h", "z" >>, << "/", "h", "e", "a", "l", "t", "h", "z", "/", "l", "i", "v", "e" >>, << "/", "p", "r", "o", "x", "y", "/", "s", "t", "a", "t", "u", "s" >>, << "/", "p", "r", "o", "x", "y" >>,
              << "/", "m", "e", "t", "r", "i", "c", "s" >>, << "/", "m", "e", "t", "r", "i", "c", "s", "x" >>, << "/" >> } }

\* One request at a time through MetricsMiddleware.
NextLabels ==
  \/ \E r \in LabelRequests : MetricsEnter(1, r)
  \/ \E o \in { [kind |-> k, status |-> s] :
                  k \in { "nil", "http", "panic" },
                  s \in HandleStatuses \cup { 0, 404, 405, 413 } } : MetricsNext(1, o)
  \/ MetricsRecord(1)
  \/ MetricsExit(1)

SpecLabels == InitMiddleware /\ [][NextLabels]_vars

\* io.Copy has read the next chunk of the upstream body (resp.Body.Read
\* returned data) and calls c.Response().Write with it.
CopyRead ==
  /\ pc = "streaming"
  /\ Len(client.body) < Len(fwd.resp.Body)
  /\ pc' = "writing"
  /\ UNCHANGED << cfg, validated, svc, req, pr, apiKey, out, upstreamCalls, upResp, fwd,
                  client, bodyOpen, log, ret, closes, ctx, conc, mw, res, metrics, mreq,
                  loaded >>

\* The client takes the chunk: Write returns and io.Copy reads on.  The
\* server sets no write deadline (e.Server.WriteTimeout = 0), so Write returns
\* only when the connection accepts the bytes or is broken.
CopyWrite ==
  /\ pc = "writing"
  /\ ~ctx.canceled
  /\ client' = [ client EXCEPT !.body = Append(@, fwd.resp.Body[Len(client.body) + 1]) ]
  /\ pc' = "streaming"
  /\ UNCHANGED << cfg, validated, svc, req, pr, apiKey, out, upstreamCalls, upResp, fwd,
                  bodyOpen, log, ret, closes, ctx, conc, mw, res, metrics, mreq, loaded >>

\* Write fails on the connection of a client that went away: io.Copy returns
\* the error, it is logged, Handle returns nil and the deferred Close runs.
CopyWriteFail ==
  /\ pc = "writing"
  /\ ctx.canceled
  /\ log' = Append(log, LogEntry("error", "streaming response body",
                                 << "w", "r", "i", "t", "e", ":", " ", "b", "r", "o", "k", "e", "n", " ", "p", "i", "p", "e" >>, req.Path))
  /\ bodyOpen' = FALSE
  /\ closes' = closes + 1
  /\ pc' = "done"
  /\ ret' = "nil"
  /\ UNCHANGED << cfg, validated, svc, req, pr, apiKey, out, upstreamCalls, upResp, fwd,
                  client, ctx, conc, mw, res, metrics, mreq, loaded >>

\* Requests of the specification of the body copy.
LiveRequests == { r \in Requests : r.Method = MethodGet /\ r.RawQuery = <<>> }

\* httpClient.Do returns: with the response, or with an error, at the latest
\* when http.Client.Timeout expires.
DoReturns ==
  \/ \E e \in TransportErrors : UpstreamFail(e)
  \/ \E st \in StatusPool, b \in SeqsUpTo(BodyChunks, MaxChunks) :
        UpstreamRespond(st, << [name |-> hContentType, value |-> << "j" >>] >>, b)

\* Handle leaves the upstream call: the steps of DoReturns, told by the
\* position alone (DoReturns is enabled whenever Handle is in the call, and
\* no other step moves Handle out of it).
DoReturned == pc = "upstream" /\ pc' \in { "streaming", "done" }

\* resp.Body.Read returns: with data, with io.EOF, or with an error, at the
\* latest when http.Client.Timeout expires.
ReadReturns == CopyRead \/ CopyDone \/ CopyFail

\* One request through the running server, the body copy taken in its reads
\* and writes.
NextLive ==
  \/ \E r \in LiveRequests : HandleBegin(r)
  \/ DoReturns
  \/ ReadReturns
  \/ CopyWrite
  \/ CopyWriteFail
  \/ CancelInbound

\* The timer of http.Client.Timeout (positive after setDefaults) bounds the
\* upstream call and every read of the body; a write to a broken connection
\* fails.  Nothing bounds a write to a connected client that does not read,
\* and nothing makes a client disconnect.
SpecLive ==
  /\ Init
  /\ [][NextLive]_vars
  /\ WF_pc(DoReturned)
  /\ WF_vars(ReadReturns)
  /\ WF_vars(CopyWriteFail)

(***************************************************************************)
(* Properties                                                              *)
(***************************************************************************)

\* The query of the outbound URL, as the upstream decodes it.
outQuery == ParseQuery(Parse(out.URL).RawQuery)

\* A parameter name that reads "apikey" once case and underscores are ignored.
dropUnderscores(s) ==
  Concat([ i \in 1..Len(s) |-> IF s[i] = "_" THEN <<>> ELSE << s[i] >> ], 1, Len(s))

CredentialShaped(k) == ToLower(dropUnderscores(k)) = << "a", "p", "i", "k", "e", "y" >>

\* The value of the first header line of the given name, compared without
\* regard to case; empty when there is none.
firstValue(lines, name) ==
  LET I == { i \in 1..Len(lines) : ToLower(lines[i].name) = ToLower(name) }
  IN  IF I = {} THEN <<>> ELSE lines[CHOOSE i \in I : \A j \in I : i <= j].value

\* s holds sub as a substring.
Contains(s, sub) ==
  \E i \in 1..(Len(s) - Len(sub) + 1) : SubSeq(s, i, i + Len(sub) - 1) = sub

\* C1 (as claimed): the outbound query holds no inbound parameter whose name
\* reads "apikey" once case and underscores are ignored; its only
\* credential-shaped parameter is "apiKey", with the resolved credential as
\* its one value.
C1_OnlyResolvedCredential ==
  out.sent =>
    /\ \A k \in DOMAIN outQuery : CredentialShaped(k) => k = apiKeyParam
    /\ apiKeyParam \in DOMAIN outQuery
    /\ outQuery[apiKeyParam] = << apiKey >>

\* C2: a non-empty shared key is the resolved credential whatever the
\* X-Api-Key header says, and the request built from any other X-Api-Key
\* header carries the same apiKey parameter; with an empty shared key the
\* credential is the value of the X-Api-Key header.
C2_SharedKeyPrecedence ==
  pc # "idle" =>
    /\ cfg.APIKey # <<>> => apiKey = cfg.APIKey
    /\ cfg.APIKey = <<>> => apiKey = firstValue(req.Lines, hXApiKey)
    /\ (cfg.APIKey # <<>> /\ out.sent) =>
          /\ outQuery[apiKeyParam] = << cfg.APIKey >>
          /\ \A l \in XApiKeyLines \cup URLKeyLines :
                LET k == resolveAPIKey(cfg, ReadMIMEHeader(EmptyMap, l))
                IN  /\ k = apiKey
                    /\ buildUpstreamURL(svc.baseURL, pr.Path, pr.Query, k) = out.URL

\* C2 witness: a request was forwarded with the shared key K1 although its
\* X-Api-Key header named another key.
C2_Witness ==
  /\ out.sent
  /\ cfg.APIKey = K1
  /\ firstValue(req.Lines, hXApiKey) = Kodd
  /\ outQuery[apiKeyParam] = << K1 >>

\* C3: with an empty shared key and no X-Api-Key header, or an empty one,
\* Forward returns ErrMissingAPIKey, no upstream call is made, and the client
\* is answered 401 with a non-empty message.
C3_MissingKeyRejected ==
  (pc # "idle" /\ cfg.APIKey = <<>> /\ firstValue(req.Lines, hXApiKey) = <<>>) =>
    /\ fwd.state = "err"
    /\ fwd.err = ErrMissingAPIKey
    /\ upstreamCalls = 0
    /\ ~out.sent
    /\ client.status = 401
    /\ client.error # <<>>
    /\ pc = "done"

\* C3 witness: a request whose first X-Api-Key header is empty was answered
\* 401 without an upstream call.
C3_Witness ==
  /\ cfg.APIKey = <<>>
  /\ \E i \in 1..Len(req.Lines) : req.Lines[i].name = hXApiKey
  /\ firstValue(req.Lines, hXApiKey) = <<>>
  /\ client.status = 401
  /\ upstreamCalls = 0

\* The request header names that must never be forwarded, in lower case.
BlockedRequestHeaders ==
  { << "a", "u", "t", "h", "o", "r", "i", "z", "a", "t", "i", "o", "n" >>, << "c", "o", "o", "k", "i", "e" >>, << "x", "-", "a", "p", "i", "-", "k", "e", "y" >>, << "x", "-", "f", "o", "r", "w", "a", "r", "d", "e", "d", "-", "f", "o", "r" >>, << "x", "-", "r", "e", "a", "l", "-", "i", "p" >>,
    << "c", "o", "n", "n", "e", "c", "t", "i", "o", "n" >>, << "k", "e", "e", "p", "-", "a", "l", "i", "v", "e" >>, << "t", "e" >>, << "t", "r", "a", "i", "l", "e", "r" >>, << "t", "r", "a", "n", "s", "f", "e", "r", "-", "e", "n", "c", "o", "d", "i", "n", "g" >>,
    << "u", "p", "g", "r", "a", "d", "e" >>, << "p", "r", "o", "x", "y", "-", "a", "u", "t", "h", "e", "n", "t", "i", "c", "a", "t", "e" >>, << "p", "r", "o", "x", "y", "-", "a", "u", "t", "h", "o", "r", "i", "z", "a", "t", "i", "o", "n" >> }

C5_OnlyForwardableResponseHeaders ==
  fwd.state = "resp" =>
    /\ \A k \in DOMAIN fwd.resp.Header \cup DOMAIN client.header :
          /\ k \in { << "C", "o", "n", "t", "e", "n", "t", "-", "T", "y", "p", "e" >>, << "C", "o", "n", "t", "e", "n", "t", "-", "L", "e", "n", "g", "t", "h" >>, << "C", "o", "n", "t", "e", "n", "t", "-", "E", "n", "c", "o", "d", "i", "n", "g" >>,
                     << "C", "a", "c", "h", "e", "-", "C", "o", "n", "t", "r", "o", "l" >>, << "D", "a", "t", "e" >>, << "X", "-", "R", "e", "q", "u", "e", "s", "t", "-", "I", "d" >> }
          /\ ToLower(k) # << "s", "e", "t", "-", "c", "o", "o", "k", "i", "e" >>
    /\ \A k \in DOMAIN fwd.resp.Header :
          /\ k \in DOMAIN upResp.Header
          /\ fwd.resp.Header[k] = upResp.Header[k]

\* C5 witness: an upstream response with Set-Cookie and an allowed header was
\* returned with the allowed header.
C5_Witness ==
  /\ fwd.state = "resp"
  /\ << "S", "e", "t", "-", "C", "o", "o", "k", "i", "e" >> \in DOMAIN upResp.Header
  /\ DOMAIN fwd.resp.Header # {}

\* C6: the outbound URL has the scheme and the host of the validated base
\* URL, and its path is the inbound path verbatim.
C6_SchemeHostPathFixed ==
  out.sent =>
    /\ Parse(out.URL).ok
    /\ Parse(out.URL).Scheme = https
    /\ Parse(out.URL).Scheme = Parse(cfg.BaseURL).Scheme
    /\ Parse(out.URL).Host = Parse(cfg.BaseURL).Host
    /\ Parse(out.URL).Path = req.Path

\* C6 witness: a path naming another host and holding an escape was forwarded,
\* with a query.
C6_Witness ==
  /\ out.sent
  /\ Contains(req.Path, << "/", "/", "e", "v", "i", "l", ".", "c", "o", "m", "/", "%", "4", "1" >>)
  /\ req.RawQuery # <<>>

\* C7: NewProxyService returns a service only for a base URL whose hostname is
\* vulners.com, for any other hostname it returns an error and no service, and
\* every request forwarded goes to that hostname.
C7_AllowlistEnforced ==
  /\ (svc.made /\ svc.ok) =>
        /\ Parse(cfg.BaseURL).ok
        /\ Hostname(Parse(cfg.BaseURL)) = << "v", "u", "l", "n", "e", "r", "s", ".", "c", "o", "m" >>
        /\ svc.baseURL = Parse(cfg.BaseURL)
  /\ (svc.made /\ Hostname(Parse(cfg.BaseURL)) # << "v", "u", "l", "n", "e", "r", "s", ".", "c", "o", "m" >>) =>
        /\ ~svc.ok
        /\ svc.baseURL = NoURL
  /\ out.sent => Hostname(Parse(out.URL)) = << "v", "u", "l", "n", "e", "r", "s", ".", "c", "o", "m" >>

\* C7 witness: a base URL that parses, with a hostname that only starts with
\* vulners.com, was refused.
C7_Witness ==
  /\ svc.made
  /\ ~svc.ok
  /\ Parse(cfg.BaseURL).ok
  /\ Hostname(Parse(cfg.BaseURL)) = << "v", "u", "l", "n", "e", "r", "s", ".", "c", "o", "m", ".", "e", "v", "i", "l", ".", "c", "o", "m" >>

\* C8 (as claimed): NewProxyService fails for a base URL whose scheme is not
\* https, even when its hostname is in the allow-set.
C8_NewProxyServiceRejectsNonHTTPS ==
  (svc.made /\ Parse(cfg.BaseURL).Scheme # https) => ~svc.ok

\* C8 (amended): Config.validate fails for a base URL whose scheme is not
\* https, even when its hostname is in the allow-set; NewProxyService tests
\* the hostname alone and accepts every parseable base URL whose hostname is
\* in the allow-set.
C8_ValidateRejectsNonHTTPS ==
  /\ (validated # "unset" /\ ~(Parse(cfg.BaseURL).ok /\ Parse(cfg.BaseURL).Scheme = https))
        => validated = "err"
  /\ (svc.made /\ Parse(cfg.BaseURL).ok /\ Hostname(Parse(cfg.BaseURL)) = << "v", "u", "l", "n", "e", "r", "s", ".", "c", "o", "m" >>)
        => svc.ok

\* C8 witness: a base URL http://vulners.com..., refused by Config.validate and
\* accepted by NewProxyService.
C8_Witness ==
  /\ validated = "err"
  /\ svc.made
  /\ svc.ok
  /\ Parse(cfg.BaseURL).Scheme = << "h", "t", "t", "p" >>
  /\ cfg.APIKey # placeholderKey


\* The class of a failure: the first rule of mapError that matches its chain.
ErrClass(err) ==
  LET has(kind) == \E i \in 1..Len(err) : err[i].kind = kind
  IN  CASE has("missing") -> "missing"
        [] ~has("missing") /\ has("deadline") -> "timeout"
        [] ~has("missing") /\ ~has("deadline") /\ has("canceled") -> "canceled"
        [] ~has("missing") /\ ~has("deadline") /\ ~has("canceled") /\ has("dns") -> "dns"
        [] ~has("missing") /\ ~has("deadline") /\ ~has("canceled") /\ ~has("dns")
             /\ has("url") -> "transport"
        [] OTHER -> "other"

\* C9: every failure gets the one outcome of the first rule that matches:
\* missing credential 401; deadline exceeded 504 "upstream request timed
\* out"; canceled 502 "client disconnected"; DNS error 502 "upstream host
\* unreachable"; another URL error 502 "upstream connection failed"; anything
\* else 502 "upstream request failed".  A DNS, timeout or cancellation error
\* inside a URL error keeps its own class.
C9_FirstMatchingRule ==
  (pc = "done" /\ fwd.state = "err") =>
    /\ ErrClass(fwd.err) = "missing" => client.status = 401
    /\ ErrClass(fwd.err) = "timeout" =>
          client.status = 504 /\ client.error = << "u", "p", "s", "t", "r", "e", "a", "m", " ", "r", "e", "q", "u", "e", "s", "t", " ", "t", "i", "m", "e", "d", " ", "o", "u", "t" >>
    /\ ErrClass(fwd.err) = "canceled" =>
          client.status = 502 /\ client.error = << "c", "l", "i", "e", "n", "t", " ", "d", "i", "s", "c", "o", "n", "n", "e", "c", "t", "e", "d" >>
    /\ ErrClass(fwd.err) = "dns" =>
          client.status = 502 /\ client.error = << "u", "p", "s", "t", "r", "e", "a", "m", " ", "h", "o", "s", "t", " ", "u", "n", "r", "e", "a", "c", "h", "a", "b", "l", "e" >>
    /\ ErrClass(fwd.err) = "transport" =>
          client.status = 502 /\ client.error = << "u", "p", "s", "t", "r", "e", "a", "m", " ", "c", "o", "n", "n", "e", "c", "t", "i", "o", "n", " ", "f", "a", "i", "l", "e", "d" >>
    /\ ErrClass(fwd.err) = "other" =>
          client.status = 502 /\ client.error = << "u", "p", "s", "t", "r", "e", "a", "m", " ", "r", "e", "q", "u", "e", "s", "t", " ", "f", "a", "i", "l", "e", "d" >>

\* C9 witness: a DNS error inside a URL error was answered as an unreachable
\* host.
C9_Witness ==
  /\ pc = "done"
  /\ Len(fwd.err) >= 2
  /\ fwd.err[1].kind = "url"
  /\ fwd.err[Len(fwd.err)].kind = "dns"
  /\ client.error = << "u", "p", "s", "t", "r", "e", "a", "m", " ", "h", "o", "s", "t", " ", "u", "n", "r", "e", "a", "c", "h", "a", "b", "l", "e" >>

\* The failures compared with the one answered: every chain of one or two
\* nodes, with its class and the response mapError gives it.
PeerErrors == { e \in ErrPool : Len(e) <= 2 }

PeerOutcome == [ e \in PeerErrors |-> [class |-> ErrClass(e), resp |-> mapError(e)] ]

\* The credentials and the marker of a credential parameter that occur in the
\* error texts.
SecretTexts == { K1, K2, << "a", "p", "i", "K", "e", "y" >>, << "v", "u", "l", "n", "e", "r", "s", ".", "c", "o", "m" >>, << "e", "v", "i", "l", ".", "e", "x", "a", "m", "p", "l", "e" >> }

\* C10: the message of an error response is one of six fixed messages; a
\* failure of the same class with another error text gets the identical
\* response; the text of the error and the credentials in it are not in the
\* response.
C10_GenericErrorBody ==
  (pc = "done" /\ fwd.state = "err") =>
    /\ client.error \in { msg401, msgTimedOut, msgDisconnected, msgUnreachable,
                          msgConnFailed, msgReqFailed }
    /\ \A e \in PeerErrors :
          PeerOutcome[e].class = ErrClass(fwd.err) =>
             PeerOutcome[e].resp = [status |-> client.status, error |-> client.error]
    /\ client.error # ErrorText(fwd.err)
    /\ \A t \in SecretTexts : ~Contains(client.error, t)

\* C10 witness: a URL error whose text holds a credential was answered, and a
\* URL error with another text is among the failures compared.
C10_Witness ==
  /\ pc = "done"
  /\ fwd.state = "err"
  /\ ErrClass(fwd.err) = "transport"
  /\ Contains(ErrorText(fwd.err), K1)
  /\ \E e \in PeerErrors : /\ PeerOutcome[e].class = "transport"
                           /\ ErrorText(e) # ErrorText(fwd.err)
                           /\ Contains(ErrorText(e), K2)

\* The positions of s where a match of (?i)apiKey=[^&\s"]+ can start.
FragmentStarts(s) ==
  { j \in 1..(Len(s) - 7) : /\ ToLower(SubSeq(s, j, j + 6)) = apikeyEq
                            /\ ~IsTokenStop(s[j + 7]) }

\* Every apiKey=<token> fragment of s reads apiKey=[REDACTED].
AllRedacted(s) ==
  \A j \in FragmentStarts(s) :
    /\ j + 16 <= Len(s)
    /\ SubSeq(s, j + 7, j + 16) = redacted
    /\ j + 17 <= Len(s) => IsTokenStop(s[j + 17])

\* The "proxy error" entries mapError logged.
ProxyErrorEntries == { i \in 1..Len(log) : log[i].msg = "proxy error" }

\* C11: the text mapError logs for the error Forward returned has every
\* apiKey=<token> fragment reading apiKey=[REDACTED], is the error text itself
\* when that text has no such fragment, and holds the resolved credential
\* neither as sent nor as escaped in the outbound URL.
C11_LoggedErrorRedacted ==
  \A i \in ProxyErrorEntries :
    /\ fwd.state = "err"
    /\ AllRedacted(log[i].err)
    /\ FragmentStarts(ErrorText(fwd.err)) = {} => log[i].err = ErrorText(fwd.err)
    /\ FragmentStarts(ErrorText(fwd.err)) # {} => log[i].err # ErrorText(fwd.err)
    /\ apiKey # <<>> =>
          /\ ~Contains(log[i].err, apiKey)
          /\ ~Contains(log[i].err, escape(apiKey, "query"))

\* C11 witness: an upstream call made with the resolved credential K2 in its
\* URL failed, and the entry logged for it reads apiKey=[REDACTED].
C11_Witness ==
  /\ pc = "done"
  /\ fwd.state = "err"
  /\ apiKey = K2
  /\ Contains(ErrorText(fwd.err), << "a", "p", "i", "K", "e", "y", "=", "K", "2" >>)
  /\ \E i \in ProxyErrorEntries :
        Contains(log[i].err, << "a", "p", "i", "K", "e", "y", "=" >> \o redacted)

\* The header map Handle wrote for the response Forward returned.
RelayedHeader == CopyHeaders(EmptyMap, fwd.resp.Header, SortedKeys(DOMAIN fwd.resp.Header))

\* The body copy of a relayed response ended before the end of the body.
CopyFailed == pc = "done" /\ fwd.state = "resp" /\ Len(client.body) < Len(fwd.resp.Body)

\* C12: a client that holds a body byte already holds the upstream status and
\* the filtered headers; from the moment they are written they stay as
\* written, through the copy and after its failure; after a failed copy the
\* client holds no error response, Handle has returned nil and the last
\* entry logged is the "streaming response body" error.
C12_StatusBeforeBodyAndKept ==
  /\ client.body # <<>> => pc \in { "streaming", "done" } /\ fwd.state = "resp"
  /\ (pc \in { "streaming", "done" } /\ fwd.state = "resp") =>
        /\ client.status = upResp.StatusCode
        /\ client.header = RelayedHeader
        /\ client.error = <<>>
  /\ CopyFailed =>
        /\ ret = "nil"
        /\ log # <<>>
        /\ log[Len(log)].level = "error"
        /\ log[Len(log)].msg = "streaming response body"
        /\ \A i \in 1..Len(log) : log[i].msg # "proxy error"

\* C12 witness: the copy of a 503 response failed after one chunk.
C12_Witness ==
  /\ CopyFailed
  /\ Len(client.body) = 1
  /\ client.status = 503
  /\ ret = "nil"
  /\ log[Len(log)].msg = "streaming response body"

\* C13: the upstream body stream is open only while Handle copies it and is
\* never closed twice; once Handle has returned for a response the transport
\* delivered, whether the copy completed or failed, the stream has been
\* closed exactly once; when Forward failed, no response was delivered, no
\* stream is open and none was closed.
C13_BodyClosedExactlyOnce ==
  /\ bodyOpen => pc = "streaming" /\ closes = 0
  /\ closes <= 1
  /\ pc = "streaming" => bodyOpen
  /\ (ret = "nil" /\ fwd.state = "resp") => closes = 1 /\ ~bodyOpen
  /\ fwd.state = "err" => /\ upResp = NoResponse
                          /\ ~bodyOpen
                          /\ closes = 0

\* C13 witness: Handle returned after a failed copy and the stream is closed.
C13_Witness ==
  /\ CopyFailed
  /\ ret = "nil"
  /\ closes = 1
  /\ ~bodyOpen

\* C14: a request makes at most one upstream call (one call of
\* httpClient.Do): none before Forward has built the outbound request, none
\* when the credential is missing, and exactly one otherwise; when that call
\* failed the request is over, the client holds the mapped 502 or 504 answer
\* and the count is still one.
C14_AtMostOneUpstreamCall ==
  /\ upstreamCalls <= 1
  /\ upstreamCalls = (IF out.sent THEN 1 ELSE 0)
  /\ (fwd.state = "err" /\ out.sent) =>
        /\ pc = "done"
        /\ upstreamCalls = 1
        /\ client.status \in { StatusBadGateway, StatusGatewayTimeout }
        /\ client.error # <<>>
        /\ client.body = <<>>

\* C14 witness: the one upstream call of a request timed out and the client
\* was answered 504.
C14_Witness ==
  /\ pc = "done"
  /\ out.sent
  /\ fwd.state = "err"
  /\ errorsIs(fwd.err, "deadline")
  /\ upstreamCalls = 1
  /\ client.status = StatusGatewayTimeout

\* The cancellation signal fired before the upstream response was obtained.
CanceledEarly == ctx.canceled /\ ctx.at \in { "idle", "upstream" }

\* a is a prefix of b.
IsPrefix(a, b) == Len(a) <= Len(b) /\ SubSeq(b, 1, Len(a)) = a

\* C15: for a request whose upstream call is made, a cancellation signal that
\* fired before the response was obtained (before Handle ran or during the
\* call) leaves no response: the call ends with an error that is
\* context.Canceled, the client is answered 502 "client disconnected" and
\* never holds a 200 or a body byte.  A signal that fired after the status
\* was sent leaves the status and headers sent by then as they were and the
\* bytes streamed by then a prefix of what the client holds.
C15_CancellationForwardOnly ==
  /\ CanceledEarly =>
        /\ fwd.state # "resp"
        /\ upResp = NoResponse
        /\ client.status # 200
        /\ client.body = <<>>
  /\ (CanceledEarly /\ out.sent /\ pc = "done") =>
        /\ fwd.state = "err"
        /\ errorsIs(fwd.err, "canceled")
        /\ upstreamCalls = 1
        /\ client.status = StatusBadGateway
        /\ client.error = msgDisconnected
  /\ (ctx.canceled /\ ctx.at = "streaming") =>
        /\ ctx.snap.status = upResp.StatusCode
        /\ client.status = ctx.snap.status
        /\ client.header = ctx.snap.header
        /\ client.error = ctx.snap.error
        /\ IsPrefix(ctx.snap.body, client.body)

\* C15 witness: the signal fired during the upstream call of a request and the
\* client was answered 502 "client disconnected".
C15_Witness ==
  /\ ctx.canceled
  /\ ctx.at = "upstream"
  /\ pc = "done"
  /\ client.status = StatusBadGateway
  /\ client.error = msgDisconnected

\* C15 witness of the late case: the signal fired after one chunk of a 200
\* response was streamed, and the copy went on to the end.
C15_WitnessLate ==
  /\ ctx.canceled
  /\ ctx.at = "streaming"
  /\ Len(ctx.snap.body) = 1
  /\ client.status = 200
  /\ Len(client.body) = 2
  /\ pc = "done"

\* The header map of the inbound request of a concurrent call.
OwnHeader(h) == ReadMIMEHeader(EmptyMap, h.req.Lines)

\* The values of a header map or of a query mapping.
AllValues(m) == UNION { { m[k][n] : n \in 1..Len(m[k]) } : k \in DOMAIN m }

\* What one call, served alone under the configuration, sends upstream for
\* the inbound request of h.
AloneOutbound(h) ==
  [ sent |-> TRUE, Method |-> h.req.Method,
    URL |-> buildUpstreamURL(NewProxyService(cfg).baseURL, h.req.Path,
                             ParseQuery(h.req.RawQuery), resolveAPIKey(cfg, OwnHeader(h))),
    Header |-> filterRequestHeaders(OwnHeader(h)) ]

\* What the client of h is answered once its call is over: the 401 of a
\* missing credential, the mapped error of its own failed call, or the relay
\* of the answer to its own call.
OwnAnswer(h) ==
  IF ~h.out.sent THEN h.client.status = StatusUnauthorized /\ h.client.body = <<>>
  ELSE IF h.upResp = NoResponse
       THEN h.client.status = StatusBadGateway /\ h.client.error = msgDisconnected
       ELSE /\ h.client.status = h.upResp.StatusCode
            /\ h.client.body = h.upResp.Body
            /\ h.client.error = <<>>
            /\ \A k \in DOMAIN h.client.header :
                  k \in DOMAIN h.upResp.Header /\ h.client.header[k] = h.upResp.Header[k]

\* The state part of C16.
ConcurrentIndependent ==
  /\ cfg \in RunningConfigs
  /\ svc.baseURL = NewProxyService(cfg).baseURL
  /\ \A i \in Handlers :
        /\ conc[i].pc # "idle" => conc[i].apiKey \in { <<>>, resolveAPIKey(cfg, OwnHeader(conc[i])) }
        /\ conc[i].out.sent =>
              /\ conc[i].out = AloneOutbound(conc[i])
              /\ AllValues(conc[i].out.Header) \subseteq
                    { conc[i].req.Lines[n].value : n \in 1..Len(conc[i].req.Lines) }
                      \cup { userAgent }
              /\ \A j \in Handlers \ { i } :
                    (conc[j].apiKey # <<>> /\ conc[j].apiKey # conc[i].apiKey) =>
                        ~Contains(conc[i].out.URL, conc[j].apiKey)
              /\ \A j \in Handlers \ { i } :
                    conc[j].req.RawQuery # conc[i].req.RawQuery /\ conc[j].req.RawQuery # <<>> =>
                        ~Contains(conc[i].out.URL, conc[j].req.RawQuery)
        /\ conc[i].pc = "done" => OwnAnswer(conc[i])

\* C16: under every interleaving of the steps of concurrent requests, what
\* each request sends upstream is what it would send served alone (its own
\* method, path, query, credential and filtered headers under the
\* configuration), no credential or query of another request is in its URL,
\* its outbound header values are its own, its client is answered from its
\* own call, and no step changes the configuration or the parsed base URL.
C16_ConcurrentRequestsIndependent ==
  /\ []ConcurrentIndependent
  /\ [][cfg' = cfg /\ svc' = svc]_vars

\* C16 witness: without a shared key, one request is in its upstream call with
\* credential K1 while another, has been answered
\* for its call with credential K2.
C16_Witness ==
  /\ cfg.APIKey = <<>>
  /\ \E i, j \in Handlers :
        /\ i # j
        /\ conc[i].pc = "upstream"
        /\ conc[i].apiKey = K1
        /\ conc[j].pc = "done"
        /\ conc[j].apiKey = K2
        /\ conc[j].client.status = 200
        /\ conc[i].out.URL # conc[j].out.URL

\* The values a header map holds under a name, as a set.
ValueSet(h, k) == IF k \in DOMAIN h THEN { h[k][n] : n \in 1..Len(h[k]) } ELSE {}

\* A response of the upstream is being relayed or has been.
Relayed == fwd.state = "resp" /\ pc \in { "streaming", "done" }

\* C17 (as claimed): every header name and value the client is sent with a
\* relayed response is a name and a value of the upstream response; the proxy
\* adds none of its own.
C17_ClientHeadersSubsetOfUpstream ==
  Relayed =>
    \A k \in DOMAIN client.header :
      /\ k \in DOMAIN upResp.Header
      /\ ValueSet(client.header, k) \subseteq ValueSet(upResp.Header, k)

\* C18 (as claimed): once a request has left the SecurityHeaders middleware,
\* the response the client was sent carries X-Content-Type-Options: nosniff
\* and X-Frame-Options: DENY.
C18_SecurityHeadersDelivered ==
  mw = "after" =>
    /\ HeaderGet(client.header, hXContentTypeOptions) = nosniff
    /\ HeaderGet(client.header, hXFrameOptions) = deny

\* The response is committed before SecurityHeaders sets its headers, on every
\* path through Handle, so they reach the header map and not the client.
SecurityHeadersSetAfterCommit ==
  /\ (mw = "inside" /\ pc = "done") => res.committed
  /\ mw = "after" =>
        /\ HeaderGet(res.header, hXContentTypeOptions) = nosniff
        /\ HeaderGet(res.header, hXFrameOptions) = deny
        /\ hXFrameOptions \notin DOMAIN client.header
  /\ Relayed =>
        /\ hXRequestId \in DOMAIN client.header
        /\ \A k \in DOMAIN client.header \ { hXRequestId } :
              k \in DOMAIN upResp.Header /\ client.header[k] = upResp.Header[k]

\* The copy of a relayed body ran to the end of the body.
CopyCompleted ==
  /\ pc = "done"
  /\ fwd.state = "resp"
  /\ \A i \in 1..Len(log) : log[i].msg # "streaming response body"

CredentialEntries(q) ==
  Cardinality({ << k, n >> \in UNION { { << k, n >> : n \in 1..Len(q[k]) } : k \in DOMAIN q } :
                  CredentialShaped(k) })

\* C20 (as claimed): parsing the outbound URL gives back the inbound path,
\* exactly the inbound query entries that are not credential-shaped, with
\* their values in order, and exactly one credential-shaped entry; building
\* the URL again from the same inputs gives the same URL.
C20_RoundTrip ==
  out.sent =>
    /\ Parse(out.URL).ok
    /\ Parse(out.URL).Path = pr.Path
    /\ \A k \in DOMAIN pr.Query :
          ~CredentialShaped(k) => k \in DOMAIN outQuery /\ outQuery[k] = pr.Query[k]
    /\ \A k \in DOMAIN outQuery : ~CredentialShaped(k) => k \in DOMAIN pr.Query
    /\ CredentialEntries(outQuery) = 1
    /\ buildUpstreamURL(svc.baseURL, pr.Path, pr.Query, apiKey) = out.URL

\* The round trip with "apiKey" as the one credential name: the path comes
\* back, every inbound entry under another name comes back unchanged, and
\* "apiKey" holds the resolved credential as its one value.
RoundTripExactName ==
  out.sent =>
    /\ Parse(out.URL).ok
    /\ Parse(out.URL).Path = pr.Path
    /\ DOMAIN outQuery = DOMAIN pr.Query \cup { apiKeyParam }
    /\ \A k \in DOMAIN pr.Query \ { apiKeyParam } : outQuery[k] = pr.Query[k]
    /\ outQuery[apiKeyParam] = << apiKey >>
    /\ buildUpstreamURL(svc.baseURL, pr.Path, pr.Query, apiKey) = out.URL

\* C21: after filterRequestHeaders the outbound request has User-Agent with
\* exactly one value, the fixed string vulners-proxy-go/1.0, under the one
\* canonical name, whatever User-Agent or other headers the client sent.
C21_UserAgentFixed ==
  out.sent =>
    /\ << "U", "s", "e", "r", "-", "A", "g", "e", "n", "t" >> \in DOMAIN out.Header
    /\ out.Header[<< "U", "s", "e", "r", "-", "A", "g", "e", "n", "t" >>] = << << "v", "u", "l", "n", "e", "r", "s", "-", "p", "r", "o", "x", "y", "-", "g", "o", "/", "1", ".", "0" >> >>
    /\ \A k \in DOMAIN out.Header :
          ToLower(k) = << "u", "s", "e", "r", "-", "a", "g", "e", "n", "t" >> => k = << "U", "s", "e", "r", "-", "A", "g", "e", "n", "t" >>

\* C21 witness: a request that carried its own User-Agent was forwarded.
C21_Witness ==
  /\ out.sent
  /\ \E i \in 1..Len(req.Lines) : ToLower(req.Lines[i].name) = << "u", "s", "e", "r", "-", "a", "g", "e", "n", "t" >>
  /\ \E i \in 1..Len(req.Lines) : ToLower(req.Lines[i].name) # << "u", "s", "e", "r", "-", "a", "g", "e", "n", "t" >>

\* The number a decimal label stands for.
RECURSIVE DecimalValue(_)
DecimalValue(s) ==
  IF s = <<>> THEN 0
  ELSE 10 * DecimalValue(SubSeq(s, 1, Len(s) - 1)) + (Code[s[Len(s)]] - 48)

\* The method label of the outbound request: the method itself when it is one
\* of the seven standard methods, "other" otherwise.
OutMethodLabel ==
  IF out.Method \in { << "G", "E", "T" >>, << "P", "O", "S", "T" >>, << "P", "U", "T" >>, << "D", "E", "L", "E", "T", "E" >>, << "P", "A", "T", "C", "H" >>, << "H", "E", "A", "D" >>, << "O", "P", "T", "I", "O", "N", "S" >> }
  THEN out.Method ELSE << "o", "t", "h", "e", "r" >>

\* C22: with metrics enabled, nothing is recorded before the upstream call
\* returns; once it has returned, its duration has been observed exactly once
\* under the normalized method, whether it failed or not, and the upstream
\* response counter holds exactly one increment, under the normalized method
\* and the decimal status received, if a response was obtained, and none if
\* the call failed.
C22_UpstreamMetricsOncePerCall ==
  metrics.on =>
    /\ (upstreamCalls = 0 \/ pc = "upstream") =>
          /\ metrics.UpstreamDuration = EmptyBag
          /\ metrics.UpstreamResponses = EmptyBag
    /\ (upstreamCalls = 1 /\ pc # "upstream") =>
          /\ metrics.UpstreamDuration = SetToBag({ << OutMethodLabel >> })
          /\ fwd.state = "err" => metrics.UpstreamResponses = EmptyBag
          /\ fwd.state = "resp" =>
                /\ BagCardinality(metrics.UpstreamResponses) = 1
                /\ \A l \in BagToSet(metrics.UpstreamResponses) :
                      /\ l[1] = OutMethodLabel
                      /\ \A i \in 1..Len(l[2]) : IsDigit(l[2][i])
                      /\ DecimalValue(l[2]) = upResp.StatusCode

\* C22 witness: with metrics enabled, a call with a method outside the
\* standard seven failed.
C22_Witness ==
  /\ metrics.on
  /\ upstreamCalls = 1
  /\ fwd.state = "err"
  /\ out.Method \notin knownMethods

\* C22 witness: with metrics enabled, a call was answered with 503.
C22_WitnessAnswered ==
  /\ metrics.on
  /\ fwd.state = "resp"
  /\ upResp.StatusCode = 503

\* The status the client of call i receives: the status the handler wrote,
\* the code of the HTTPError it returned, 500 after a panic.
ClientStatus(i) ==
  IF mreq[i].err = "http" THEN mreq[i].code
  ELSE IF mreq[i].err = "panic" THEN 500
  ELSE mreq[i].Status

\* The value of vulners_proxy_http_requests_total summed over the label tuples
\* whose status_code is the decimal form of n.
CountedUnder(n) ==
  BagCardinality([ l \in { x \in BagToSet(metrics.RequestsTotal) :
                             /\ \A k \in 1..Len(x[2]) : IsDigit(x[2][k])
                             /\ DecimalValue(x[2]) = n }
                     |-> metrics.RequestsTotal[l] ])

\* The statuses that occur, in the counter or in a request.
OccurringStatuses ==
  { DecimalValue(l[2]) : l \in BagToSet(metrics.RequestsTotal) } \cup
  { ClientStatus(i) : i \in Handlers }

\* C23: each request that has passed MetricsMiddleware is counted exactly
\* once in vulners_proxy_http_requests_total, under the status code its
\* client receives: for every status, the counter summed over the labels with
\* this status equals the number of such requests answered with it.
C23_EachRequestCountedOnce ==
  \A n \in OccurringStatuses :
     CountedUnder(n) =
       Cardinality({ i \in Handlers : /\ mreq[i].pc \in { "recorded", "left" }
                                      /\ ClientStatus(i) = n })

\* The same for the requests whose handler returned: a request whose handler
\* panicked is not counted at all.
CountedOnceUnlessPanicked ==
  \A n \in OccurringStatuses :
     CountedUnder(n) =
       Cardinality({ i \in Handlers : /\ mreq[i].pc \in { "recorded", "left" }
                                      /\ mreq[i].err # "panic"
                                      /\ ClientStatus(i) = n })

\* Two requests answered with the same status were both counted.
CountedTwice ==
  /\ \A i \in Handlers : mreq[i].pc = "left" /\ mreq[i].err = "http" /\ mreq[i].code = 404
  /\ CountedUnder(404) = 2

\* The calls of MetricsMiddleware that have been entered and not yet left.
InsideMiddleware ==
  { i \in Handlers : mreq[i].pc \in { "next", "returned", "recorded", "panicking" } }

\* C29: the gauge vulners_proxy_http_requests_in_flight equals the number of
\* requests inside MetricsMiddleware in every state of every interleaving:
\* it went up by one when a request entered and down by one when it left, by
\* return or by panic; it is never negative, and it is zero when every
\* request has left.
C29_InFlightGauge ==
  /\ metrics.RequestsInFlight = Cardinality(InsideMiddleware)
  /\ metrics.RequestsInFlight >= 0
  /\ (\A i \in Handlers : mreq[i].pc \in { "out", "left" }) => metrics.RequestsInFlight = 0

\* C29 witness: every request has left the middleware, one after a panic and one
\* with an HTTPError.
C29_Witness ==
  /\ \A i \in Handlers : mreq[i].pc = "left"
  /\ \E i \in Handlers : mreq[i].err = "panic"
  /\ \E i \in Handlers : mreq[i].err = "http"
  /\ metrics.RequestsInFlight = 0

\* Every request is inside the middleware at the same time.
AllInside ==
  /\ InsideMiddleware = Handlers
  /\ metrics.RequestsInFlight = MaxConcurrent

\* The configuration Load validates: the file contents with the overrides of
\* the command line.
Effective == applyCLI(cfg, loaded.cli)

\* C24: a configuration returned by Load has an https base URL, a port in
\* 1..65535, a positive body limit, upstream timeout and idle-connection
\* count, a log level among debug, info, warn, error and a log format among
\* json, text (case ignored), and an API key that is not the placeholder; and
\* when the base URL is empty or not https, the port, body limit, timeout or
\* idle-connection count negative, the port above 65535, or the key the
\* placeholder, Load returns an error and no configuration.
C24_LoadReturnsValidConfig ==
  loaded.called =>
    /\ ~loaded.err =>
          /\ HasPrefix(ToLower(loaded.cfg.BaseURL), << "h", "t", "t", "p", "s", ":" >>)
          /\ loaded.cfg.Port \in 1..65535
          /\ loaded.cfg.BodyMaxBytes > 0
          /\ loaded.cfg.TimeoutSeconds > 0
          /\ loaded.cfg.IdleConnections > 0
          /\ ToLower(loaded.cfg.LogLevel) \in { << "d", "e", "b", "u", "g" >>, << "i", "n", "f", "o" >>, << "w", "a", "r", "n" >>, << "e", "r", "r", "o", "r" >> }
          /\ ToLower(loaded.cfg.LogFormat) \in { << "j", "s", "o", "n" >>, << "t", "e", "x", "t" >> }
          /\ loaded.cfg.APIKey # << "Y", "O", "U", "R", "_", "A", "P", "I", "_", "K", "E", "Y", "_", "H", "E", "R", "E" >>
    /\ ( \/ Effective.BaseURL = <<>>
         \/ ~HasPrefix(ToLower(Effective.BaseURL), << "h", "t", "t", "p", "s", ":" >>)
         \/ Effective.Port < 0
         \/ Effective.Port > 65535
         \/ Effective.BodyMaxBytes < 0
         \/ Effective.TimeoutSeconds < 0
         \/ Effective.IdleConnections < 0
         \/ Effective.APIKey = << "Y", "O", "U", "R", "_", "A", "P", "I", "_", "K", "E", "Y", "_", "H", "E", "R", "E" >> )
       => (loaded.err /\ loaded.cfg = NilConfig)

\* C24 witness: Load returned a configuration for a file that leaves port,
\* body limit, timeout and idle connections at zero and spells the log level
\* and format in other case.
C24_Witness ==
  /\ loaded.called
  /\ ~loaded.err
  /\ cfg.Port = 0 /\ cfg.BodyMaxBytes = 0 /\ cfg.TimeoutSeconds = 0 /\ cfg.IdleConnections = 0
  /\ cfg.LogLevel = << "D", "E", "B", "U", "G" >> /\ cfg.LogFormat = << "T", "e", "x", "t" >>
  /\ loaded.cfg.Port = 8000

\* Load refused a port above 65535 given on the command line.
LoadRefusedPort ==
  /\ loaded.called
  /\ loaded.err
  /\ loaded.cli.Port = 70000
  /\ validate(cfg)

\* The inbound path is under one of the two templates /api/v3/* and /api/v4/*.
UnderTemplate(p) == HasPrefix(p, << "/", "a", "p", "i", "/", "v", "3", "/" >>) \/ HasPrefix(p, << "/", "a", "p", "i", "/", "v", "4", "/" >>)

\* A credential is at hand for the request: the shared key, or its X-Api-Key.
HasCredential == cfg.APIKey # <<>> \/ firstValue(req.Lines, << "X", "-", "A", "p", "i", "-", "K", "e", "y" >>) # <<>>

\* C25: a request served under /api/v3/* or /api/v4/*, whatever its method,
\* is handled by Handle (answered 401 without a credential) and, with a
\* credential, forwarded in one upstream call to the same path; a request to
\* any other path than /healthz, /proxy/status and the metrics path of a
\* server with metrics is answered 404 and causes no upstream call.
C25_TemplatesForwardedOthers404 ==
  pc # "idle" =>
    /\ (UnderTemplate(req.Path) /\ HasCredential) =>
          /\ out.sent
          /\ upstreamCalls = 1
          /\ Parse(out.URL).Path = req.Path
    /\ (UnderTemplate(req.Path) /\ ~HasCredential) => client.status = 401
    /\ ( /\ ~UnderTemplate(req.Path)
         /\ req.Path \notin { << "/", "h", "e", "a", "l", "t", "h", "z" >>, << "/", "p", "r", "o", "x", "y", "/", "s", "t", "a", "t", "u", "s" >> }
         /\ ~(cfg.MetricsEnabled /\ req.Path = cfg.MetricsPath) ) =>
          /\ client.status = 404
          /\ upstreamCalls = 0
          /\ ~out.sent

\* The same for the methods e.Any registers; a request under a template with
\* any other method is answered 405 and causes no upstream call.
RegisteredMethodsForwarded ==
  pc # "idle" =>
    /\ (UnderTemplate(req.Path) /\ HasCredential /\ req.Method \in anyMethods) =>
          /\ out.sent
          /\ upstreamCalls = 1
          /\ Parse(out.URL).Path = req.Path
    /\ (UnderTemplate(req.Path) /\ ~HasCredential /\ req.Method \in anyMethods) =>
          client.status = 401
    /\ (UnderTemplate(req.Path) /\ req.Method \notin anyMethods) =>
          /\ client.status = 405
          /\ upstreamCalls = 0
          /\ ~out.sent
    /\ ( /\ ~UnderTemplate(req.Path)
         /\ req.Path \notin { << "/", "h", "e", "a", "l", "t", "h", "z" >>, << "/", "p", "r", "o", "x", "y", "/", "s", "t", "a", "t", "u", "s" >> }
         /\ ~(cfg.MetricsEnabled /\ req.Path = cfg.MetricsPath) ) =>
          /\ client.status = 404
          /\ upstreamCalls = 0
          /\ ~out.sent

\* A DELETE under /api/v4/* was forwarded, and answered.
ForwardedDelete ==
  /\ req.Method = << "D", "E", "L", "E", "T", "E" >>
  /\ req.Path = << "/", "a", "p", "i", "/", "v", "4", "/", "a", "/", "b" >>
  /\ fwd.state = "resp"

\* C26: within a request, while the upstream call is in progress the outbound
\* request is complete (it carries the resolved credential in its URL and the
\* filtered request headers) and nothing has been filtered for or written to
\* the client; the filtered response headers, the status and the body reach
\* the client only in states where the upstream call has returned a response.
C26_OrderWithinRequest ==
  /\ pc = "upstream" =>
        /\ apiKey # <<>>
        /\ apiKey = resolveAPIKey(cfg, pr.Header)
        /\ out.sent
        /\ out.URL = buildUpstreamURL(svc.baseURL, pr.Path, pr.Query, apiKey)
        /\ out.Header = filterRequestHeaders(pr.Header)
  /\ pc \in { "idle", "upstream" } =>
        /\ fwd = NoForward
        /\ upResp = NoResponse
        /\ client = NoClient
        /\ ~res.committed
  /\ (client.header # EmptyMap \/ client.body # <<>> \/ (client.status # 0 /\ client.error = <<>>)) =>
        /\ fwd.state = "resp"
        /\ upstreamCalls = 1
        /\ upResp.StatusCode = client.status
        /\ fwd.resp.Header = filterResponseHeaders(upResp.Header)

\* C26 witness: a request with its own credential was sent, answered, and
\* part of the body has been copied.
C26_Witness ==
  /\ pc = "streaming"
  /\ cfg.APIKey = <<>>
  /\ client.body # <<>>
  /\ client.header # EmptyMap

\* The values of the header lines whose name is n, case ignored, in the order
\* of the lines.
RECURSIVE LineValues(_, _)
LineValues(lines, n) ==
  IF lines = <<>> THEN <<>>
  ELSE (IF ToLower(Head(lines).name) = ToLower(n) THEN << Head(lines).value >> ELSE <<>>)
       \o LineValues(Tail(lines), n)

\* The name is one of the five forwardable request headers or starts with
\* x-vulners-, case ignored.
ForwardableName(n) ==
  \/ ToLower(n) \in { << "a", "c", "c", "e", "p", "t" >>, << "a", "c", "c", "e", "p", "t", "-", "e", "n", "c", "o", "d", "i", "n", "g" >>, << "a", "c", "c", "e", "p", "t", "-", "l", "a", "n", "g", "u", "a", "g", "e" >>,
                      << "c", "o", "n", "t", "e", "n", "t", "-", "t", "y", "p", "e" >>, << "c", "o", "n", "t", "e", "n", "t", "-", "l", "e", "n", "g", "t", "h" >> }
  \/ HasPrefix(ToLower(n), << "x", "-", "v", "u", "l", "n", "e", "r", "s", "-" >>)

\* C27: every inbound header named Accept, Accept-Encoding, Accept-Language,
\* Content-Type or Content-Length, or with a name starting with x-vulners-
\* (case ignored), is in the outbound request under its canonical name, with
\* all its inbound values in their order.
C27_ForwardableHeadersKept ==
  out.sent =>
    \A i \in 1..Len(req.Lines) :
       ForwardableName(req.Lines[i].name) =>
          /\ CanonicalHeaderKey(req.Lines[i].name) \in DOMAIN out.Header
          /\ out.Header[CanonicalHeaderKey(req.Lines[i].name)] =
                LineValues(req.Lines, req.Lines[i].name)

\* C27 witness: a vendor header sent twice, in two spellings, was forwarded
\* with both values.
C27_Witness ==
  /\ out.sent
  /\ Len(req.Lines) = 2
  /\ req.Lines[1].name = << "x", "-", "v", "u", "l", "n", "e", "r", "s", "-", "t", "o", "k", "e", "n" >>
  /\ req.Lines[2].name = << "X", "-", "V", "u", "l", "n", "e", "r", "s", "-", "T", "o", "k", "e", "n" >>
  /\ Len(out.Header[<< "X", "-", "V", "u", "l", "n", "e", "r", "s", "-", "T", "o", "k", "e", "n" >>]) = 2

\* The label tuples recorded for inbound requests.
InboundLabels == BagToSet(metrics.RequestsTotal) \cup BagToSet(metrics.RequestDuration)

\* C28: the method label recorded for a request is its method when that is
\* exactly one of GET, POST, PUT, DELETE, PATCH, HEAD, OPTIONS and "other"
\* otherwise; the path label is one of /api/v3, /api/v4, /healthz,
\* /proxy/status, /metrics and "other"; no recorded metric has a method or
\* path label outside these sets.
C28_LabelsFromFixedSets ==
  /\ \A l \in InboundLabels :
        /\ l[1] \in { << "G", "E", "T" >>, << "P", "O", "S", "T" >>, << "P", "U", "T" >>, << "D", "E", "L", "E", "T", "E" >>, << "P", "A", "T", "C", "H" >>, << "H", "E", "A", "D" >>,
                      << "O", "P", "T", "I", "O", "N", "S" >>, << "o", "t", "h", "e", "r" >> }
        /\ l[3] \in { << "/", "a", "p", "i", "/", "v", "3" >>, << "/", "a", "p", "i", "/", "v", "4" >>, << "/", "h", "e", "a", "l", "t", "h", "z" >>, << "/", "p", "r", "o", "x", "y", "/", "s", "t", "a", "t", "u", "s" >>,
                      << "/", "m", "e", "t", "r", "i", "c", "s" >>, << "o", "t", "h", "e", "r" >> }
        /\ l[1] = IF mreq[1].Method \in { << "G", "E", "T" >>, << "P", "O", "S", "T" >>, << "P", "U", "T" >>, << "D", "E", "L", "E", "T", "E" >>,
                                          << "P", "A", "T", "C", "H" >>, << "H", "E", "A", "D" >>, << "O", "P", "T", "I", "O", "N", "S" >> }
                  THEN mreq[1].Method ELSE << "o", "t", "h", "e", "r" >>
  /\ \A l \in BagToSet(metrics.UpstreamDuration) \cup BagToSet(metrics.UpstreamResponses) :
        l[1] \in { << "G", "E", "T" >>, << "P", "O", "S", "T" >>, << "P", "U", "T" >>, << "D", "E", "L", "E", "T", "E" >>, << "P", "A", "T", "C", "H" >>, << "H", "E", "A", "D" >>,
                   << "O", "P", "T", "I", "O", "N", "S" >>, << "o", "t", "h", "e", "r" >> }

\* C28 witness: a request with the method in lower case and a path beside a
\* known prefix was recorded.
C28_Witness ==
  /\ mreq[1].pc = "recorded"
  /\ mreq[1].Method = << "g", "e", "t" >>
  /\ mreq[1].Path = << "/", "a", "p", "i", "/", "v", "3", "x" >>
  /\ InboundLabels # {}

\* A path that continues a known prefix with "?" was recorded under the prefix.
RecordedUnderPrefix ==
  /\ mreq[1].Path = << "/", "a", "p", "i", "/", "v", "4", "?", "x" >>
  /\ \E l \in InboundLabels : l[3] = << "/", "a", "p", "i", "/", "v", "4" >>

\* Handle is inside the upstream call or the body copy.
InFlight == pc \in { "upstream", "streaming", "writing" }

\* C30: every request eventually ends: a call to Handle that is in the
\* upstream call or in the body copy eventually returns, whatever the upstream
\* and the client do.
C30_EveryRequestEnds == InFlight ~> (pc = "done" /\ ret = "nil")

\* The upstream call itself always ends.
UpstreamCallEnds == (pc = "upstream") ~> (pc # "upstream")

\* With a client that keeps taking what is written to it, every request ends.
EndsWhileClientReads == WF_vars(CopyWrite) => C30_EveryRequestEnds

\* Handle is inside Write to a client that is connected.
BlockedInWrite == pc = "writing" /\ ~ctx.canceled

=============================================================================
